---- MODULE Spec2Model ----
(***************************************************************************)
(* Trade lifecycle and re-entry orchestration of the Zepix trading bot:    *)
(* CombinedV3Plugin (src/logic_plugins/combined_v3/plugin.py) and the      *)
(* ServiceAPI facade (src/core/plugin_system/service_api.py).              *)
(*                                                                         *)
(* Collaborators whose code is not part of the available sources           *)
(* (ReentryService, V3OrderManager, RiskManagementService, the execution   *)
(* port) are modelled from the written specification and are marked so.    *)
(***************************************************************************)
EXTENDS Integers, Sequences, FiniteSets, TLC

VARIABLES
    \* ---- CombinedV3Plugin: re-entry bookkeeping ----
    reentry_service,   \* _reentry_service injected (TRUE) or None (FALSE)
    cfg,               \* plugin_config: the three re-entry "enabled" flags
    chain_levels,      \* _chain_levels: trade_id -> chain level (absent = 0)
    active_orders,     \* _active_orders: the order ids currently tracked
    issued,            \* order ids the dual-order service has handed out
    tasks,             \* running handler coroutines (one record per task)
    \* ---- ReentryService ----
    monitors,          \* trade_id -> its active recovery monitors, in start order
    \* ---- observations of what the handlers did ----
    events_created,    \* trade_id -> ReentryEvents built by on_order_a_closed
    close_log,         \* trade_id -> reasons of the close events, in order
    counting,          \* whether re-entries are being counted (an observer's switch)
    reentries,         \* trade_id -> re-entry orders executed for the chain, when counted
    last_recovery,     \* the re-entry order executed by the last step (or NoSignal)
    \* ---- ServiceAPI / risk state ----
    trading_enabled,   \* engine.trading_enabled
    order_service,     \* ServiceAPI._order_service is set
    risk_service,      \* ServiceAPI._risk_service is set
    daily_loss,        \* RiskState.daily_pnl, as loss consumed of the budget
    limit_result,      \* last result of ServiceAPI.check_daily_limit
    limit_call,        \* the check_daily_limit call awaiting the risk service
    \* ---- CombinedV3Plugin: entry signals ----
    shadow_mode,       \* plugin.shadow_mode
    close_api,         \* the service_api object has close_positions_by_direction
    etasks,            \* running process_entry_signal coroutines
    port_req,          \* the request the last step sent to the execution port
    entry_result,      \* the result the last step returned to the signal's caller
    \* ---- on_recovery_signal as a function of its event ----
    tp_event,          \* the ReentryEvent handed to on_recovery_signal
    tp_signal,         \* the re-entry signal it built (or NoSignal)
    tp_result,         \* on_recovery_signal: at its await, or what it returned
    \* ---- CombinedV3Plugin: dual orders ----
    dual_order_service, \* _dual_order_service injected (TRUE) or None (FALSE)
    dual_results,      \* trade -> the DualOrderResult create_dual_orders returned
    service_calls,     \* trade -> calls made to DualOrderService.create_dual_orders
    dual_pending,      \* trade -> results of the service calls create_dual_orders awaits
    \* ---- CombinedV3Plugin: signal routing ----
    plugin_routing,    \* plugin_config: signal_routing and logic_multipliers
    route_result,      \* the routing decision computed by the last step
    routed,            \* alert -> the first routing decision computed for it
    \* ---- SessionManager ----
    session_config,    \* config: master_switch and the session windows
    session_result,    \* the answer of the last session query
    session_edits,     \* session windows edited so far
    \* ---- failures ----
    escaped,           \* an exception has left a handler
    \* ---- CombinedV3Plugin: smart lot ----
    smart_lot,         \* the last get_smart_lot_size call: its inputs and its answer
    \* ---- trading SessionManager (Trading_Bot/src/managers) ----
    tsm,               \* active_session_id, the sessions' database rows, observations
    tsm_result,        \* the last SessionManager call and what it returned
    \* ---- DualOrderMenuHandler / ReentryMenuHandler ----
    menu_config,       \* the _config of the two handlers: dual_order_system, reentry_system
    menu_result,       \* the last handle_callback call and what it returned
    menu_edits,        \* steps that changed a handler's configuration so far
    \* ---- ServiceAPI placement methods ----
    api_result,        \* the last placement call: where it went and what it returned
    api_call,          \* the placement call awaiting the order service
    \* ---- PluginRegistry ----
    registry,          \* plugins (in load order), their enabled flags, a running hook
    reg_result,        \* what the registry's last step did with which plugin
    \* ---- PluginContextManager ----
    ctx,               \* the clock, _user_contexts, and what each chat last asked for
    ctx_result         \* the last PluginContextManager call and what it returned

reentryVars == <<reentry_service, cfg, chain_levels, active_orders, issued, tasks,
                 monitors, events_created, close_log, counting, reentries,
                 last_recovery>>
riskVars    == <<trading_enabled, order_service, risk_service, daily_loss,
                 limit_result, limit_call>>
entryVars   == <<shadow_mode, close_api, etasks, port_req, entry_result>>
tpVars      == <<tp_event, tp_signal, tp_result>>
dualVars    == <<dual_order_service, dual_results, service_calls, dual_pending>>
routeVars   == <<plugin_routing, route_result, routed>>
sessionVars == <<session_config, session_result, session_edits>>
auxVars     == <<smart_lot, tsm, tsm_result, menu_config, menu_result, menu_edits, api_result,
                   api_call, registry, reg_result, ctx, ctx_result>>
extVars     == <<dualVars, routeVars, sessionVars, escaped, auxVars>>
vars        == <<reentryVars, riskVars, entryVars, tpVars, extVars>>

(***************************************************************************)
(* Bounds of the model.                                                    *)
(***************************************************************************)
NTasks    == 2      \* handler coroutines that may be in flight at once
MaxCloses == 2      \* close events delivered for one order id
MaxCreates == 2     \* create_dual_orders calls that reach the dual-order service
MaxLoss   == 3      \* daily loss is counted up to this many units
NEntryTasks == 2    \* process_entry_signal coroutines in flight at once
MaxTpLevel == 7     \* chain levels fed to on_recovery_signal
MaxRoutings == 2    \* times one alert is routed
NSessions == 2      \* session windows of a generated session configuration
MaxEdits  == 1      \* edits of session windows (adjust_session_time, toggle_symbol)

\* get_max_chain_level: plugin_config.get("max_chain_level", 5)
get_max_chain_level == 5

\* re-entries counted per chain: one more than the cap, so that exceeding it shows
MaxReentries == get_max_chain_level + 1

Trades  == {"t1", "t2"}
\* the chain whose close events the engine delivers to the handlers directly
Chains  == {"t1"}
TaskIds == 1..NTasks
ETaskIds == 1..NEntryTasks

(***************************************************************************)
(* Program constants.                                                      *)
(***************************************************************************)
\* RiskState.daily_limit, in the units of daily_loss
daily_limit == 2

NoSignal == [signal_type |-> "none"]
NoResult == [can_trade |-> "not_called"]
NoEvent  == [trade_id |-> "none"]
NoRequest == [op |-> "none"]
Idle     == [pc |-> "idle"]

\* The signal a trade was opened from (what _active_orders keeps per order).
SignalOf(t) ==
    IF t = "t1"
    THEN [symbol |-> "EURUSD", direction |-> "BUY",  signal_type |-> "Momentum_Breakout",
          price |-> 100, sl |-> 90]
    ELSE [symbol |-> "GBPUSD", direction |-> "SELL", signal_type |-> "Liquidity_Trap",
          price |-> 100, sl |-> 120]

\* str.upper() on the direction strings a signal can carry
Upper(s) ==
    CASE s = "buy"  -> "BUY"
      [] s = "sell" -> "SELL"
      [] OTHER      -> s

Min(a, b) == IF a <= b THEN a ELSE b
Abs(x)    == IF x < 0 THEN -x ELSE x

\* get_chain_level: self._chain_levels.get(trade_id, 0)
get_chain_level(t) == chain_levels[t]

(***************************************************************************)
(* ReentryEvent construction.                                              *)
(***************************************************************************)
ReentryTypeOf(kind) ==
    CASE kind = "sl"   -> "sl_hunt"
      [] kind = "tp"   -> "tp_continuation"
      [] kind = "exit" -> "exit_continuation"

\* The event the trading engine hands to on_sl_hit / on_tp_hit / on_exit for
\* trade t: the data model's ReentryEvent, filled from the trade's signal.
EngineEvent(t, kind) ==
    [trade_id |-> t, symbol |-> SignalOf(t).symbol, reentry_type |-> ReentryTypeOf(kind),
     entry_price |-> SignalOf(t).price, sl_price |-> SignalOf(t).sl,
     direction |-> SignalOf(t).direction, chain_level |-> 0]

\* The event on_order_a_closed builds for an SL close (plugin.py 252-262):
\* sl_price is 0 and direction is filled from the signal's signal_type.
ClosedOrderEvent(order_id) ==
    [trade_id |-> order_id, symbol |-> SignalOf(order_id).symbol,
     reentry_type |-> "sl_hunt",
     entry_price |-> SignalOf(order_id).price, sl_price |-> 0,
     direction |-> SignalOf(order_id).signal_type,
     chain_level |-> get_chain_level(order_id)]

\* A handler suspended at its await of the ReentryService, with its local
\* current_level: the chain level the trade had when its close was handled.
Awaiting(kind, ev, cur) ==
    [pc |-> "starting", kind |-> kind, event |-> ev, current_level |-> cur,
     success |-> FALSE]

(***************************************************************************)
(* on_sl_hit / on_tp_hit / on_exit up to their await: the task record the  *)
(* coroutine is left in, Idle when it returned False before awaiting.      *)
(***************************************************************************)
\* on_sl_hit that leaves the event's chain_level as the caller filled it
on_sl_hit_begin_level_not_set(event) ==
    IF ~reentry_service THEN Idle
    ELSE IF ~cfg.sl_hunt_recovery THEN Idle
    ELSE LET current_level == get_chain_level(event.trade_id) IN
         IF current_level >= get_max_chain_level THEN Idle
         ELSE Awaiting("sl", event, current_level)

on_sl_hit_begin(event) ==
    IF ~reentry_service THEN Idle
    ELSE IF ~cfg.sl_hunt_recovery THEN Idle
    ELSE LET current_level == get_chain_level(event.trade_id) IN
         IF current_level >= get_max_chain_level THEN Idle
         ELSE Awaiting("sl", [event EXCEPT !.chain_level = current_level], current_level)

\* on_tp_hit with the cap compared by > instead of >=
on_tp_hit_begin_cap_off_by_one(event) ==
    IF ~reentry_service THEN Idle
    ELSE IF ~cfg.tp_continuation THEN Idle
    ELSE LET current_level == get_chain_level(event.trade_id) IN
         IF current_level > get_max_chain_level THEN Idle
         ELSE Awaiting("tp", [event EXCEPT !.chain_level = current_level], current_level)

on_tp_hit_begin(event) ==
    IF ~reentry_service THEN Idle
    ELSE IF ~cfg.tp_continuation THEN Idle
    ELSE LET current_level == get_chain_level(event.trade_id) IN
         IF current_level >= get_max_chain_level THEN Idle
         ELSE Awaiting("tp", [event EXCEPT !.chain_level = current_level], current_level)

on_exit_begin(event) ==
    IF ~reentry_service THEN Idle
    ELSE IF ~cfg.exit_continuation THEN Idle
    ELSE LET current_level == get_chain_level(event.trade_id) IN
         Awaiting("exit", [event EXCEPT !.chain_level = current_level], current_level)

\* The chain levels after the handler resumes from its await.
on_sl_hit_end(task) ==
    IF task.success
    THEN [chain_levels EXCEPT ![task.event.trade_id] = task.current_level + 1]
    ELSE chain_levels

on_tp_hit_end(task) ==
    IF task.success
    THEN [chain_levels EXCEPT ![task.event.trade_id] = task.current_level + 1]
    ELSE chain_levels

on_exit_end(task) == chain_levels

(***************************************************************************)
(* ReentryService (specification section 4.5 and 5): one monitor per       *)
(* trade_id; a start for a trade that already has an active monitor is     *)
(* dropped and reports False.                                              *)
(***************************************************************************)
HasMonitor(ms, t) == Len(ms[t]) > 0

\* a start that does not look for an active monitor of the trade
start_monitor_no_dedupe(ms, task, accept) ==
    IF accept
    THEN [ms EXCEPT ![task.event.trade_id] =
             Append(@, [reentry_type |-> task.event.reentry_type,
                        event |-> task.event, closed |-> task.current_level])]
    ELSE ms

start_monitor(ms, task, accept) ==
    IF accept /\ ~HasMonitor(ms, task.event.trade_id)
    THEN [ms EXCEPT ![task.event.trade_id] =
             Append(@, [reentry_type |-> task.event.reentry_type,
                        event |-> task.event, closed |-> task.current_level])]
    ELSE ms

RemoveAt(s, i) == [j \in 1..(Len(s) - 1) |-> IF j < i THEN s[j] ELSE s[j + 1]]

\* The recovery signal a monitor emits: its event with chain_level + 1.
recovery_event(m) == [m.event EXCEPT !.chain_level = @ + 1]

(***************************************************************************)
(* on_recovery_signal: the re-entry signal built from a recovery event.    *)
(* Prices are integers; sl_price_x10 is ten times the stop-loss price, so  *)
(* that the 10% steps of the TP-Continuation reduction stay exact.         *)
(***************************************************************************)
\* the reduction without its cap
tp_reduction_x10_uncapped(chain_level) == chain_level

\* reduction = min(0.1 * chain_level, 0.5), in tenths
tp_reduction_x10(chain_level) == Min(chain_level, 5)

on_recovery_signal(event) ==
    LET base == [signal_type |-> "recovery_entry", symbol |-> event.symbol,
                 direction |-> event.direction, entry_price |-> event.entry_price,
                 sl_price_x10 |-> 10 * event.sl_price,
                 chain_level |-> event.chain_level,
                 recovery_type |-> event.reentry_type,
                 original_trade_id |-> event.trade_id]
        reduction == tp_reduction_x10(event.chain_level)
        original_sl_distance == Abs(event.entry_price - event.sl_price)
        reduced_x10 == original_sl_distance * (10 - reduction)
    IN  IF event.reentry_type = "tp_continuation"
        THEN IF Upper(event.direction) = "BUY"
             THEN [base EXCEPT !.sl_price_x10 = 10 * event.entry_price - reduced_x10]
             ELSE [base EXCEPT !.sl_price_x10 = 10 * event.entry_price + reduced_x10]
        ELSE base

(***************************************************************************)
(* ServiceAPI.check_daily_limit and the risk service behind it.            *)
(***************************************************************************)
\* RiskManagementService.check_daily_limit (specification section 4.2):
\* compares the daily loss against the daily limit.
risk_check_daily_limit ==
    [can_trade |-> daily_loss < daily_limit, daily_loss |-> daily_loss,
     daily_limit |-> daily_limit]

\* what check_daily_limit returns: the awaited answer of the risk service when
\* there is one, else the dict that allows trading
check_daily_limit(answer) ==
    IF risk_service THEN answer
    ELSE [can_trade |-> TRUE, daily_loss |-> 0, daily_limit |-> 0]

LimitReached == daily_loss >= daily_limit

\* ServiceAPI.place_dual_orders_v3 forwards the request to the order service.
place_dual_orders_v3_forwards == trading_enabled /\ order_service

\* The dual-placement path of the order manager (specification 4.4 / 7):
\* a request is refused as RiskLimitExceeded when the daily limit check says so.
PlaceDualOutcome ==
    IF ~check_daily_limit(risk_check_daily_limit).can_trade THEN "risk_limit"
    ELSE IF place_dual_orders_v3_forwards THEN "forwarded"
    ELSE "not_placed"

(***************************************************************************)
(* Signal routing: _route_to_logic and _get_logic_multiplier over the      *)
(* plugin configuration.  A dict is a function whose DOMAIN is its key set;*)
(* lot multipliers are kept in thousandths (0.625 is 625).                 *)
(***************************************************************************)
EmptyDict == [x \in {} |-> "none"]

\* plugin_config with neither signal_routing nor logic_multipliers
NoRouting ==
    [signal_overrides |-> EmptyDict, timeframe_routing |-> EmptyDict,
     default_logic |-> "absent", logic_multipliers |-> EmptyDict]

\* _route_to_logic with the timeframe table consulted before the structural rules
_route_to_logic_tf_first(alert) ==
    LET overrides  == plugin_routing.signal_overrides
        tf_routing == plugin_routing.timeframe_routing
    IN  IF alert.signal_type \in DOMAIN overrides THEN overrides[alert.signal_type]
        ELSE IF alert.tf \in DOMAIN tf_routing THEN tf_routing[alert.tf]
        ELSE IF alert.signal_type \in {"Screener_Full_Bullish", "Screener_Full_Bearish"}
        THEN "combinedlogic-3"
        ELSE IF alert.signal_type = "Golden_Pocket_Flip" /\ alert.tf \in {"60", "240"}
        THEN "combinedlogic-3"
        ELSE IF plugin_routing.default_logic = "absent" THEN "combinedlogic-2"
        ELSE plugin_routing.default_logic

_route_to_logic(alert) ==
    LET overrides  == plugin_routing.signal_overrides
        tf_routing == plugin_routing.timeframe_routing
    IN  IF alert.signal_type \in DOMAIN overrides THEN overrides[alert.signal_type]
        ELSE IF alert.signal_type \in {"Screener_Full_Bullish", "Screener_Full_Bearish"}
        THEN "combinedlogic-3"
        ELSE IF alert.signal_type = "Golden_Pocket_Flip" /\ alert.tf \in {"60", "240"}
        THEN "combinedlogic-3"
        ELSE IF alert.tf \in DOMAIN tf_routing THEN tf_routing[alert.tf]
        ELSE IF plugin_routing.default_logic = "absent" THEN "combinedlogic-2"
        ELSE plugin_routing.default_logic

\* a multiplier lookup that gives the conservative multiplier once the day
\* has a loss
_get_logic_multiplier_after_loss(logic_route) ==
    LET multipliers == plugin_routing.logic_multipliers IN
    IF daily_loss > 0 THEN 625
    ELSE IF logic_route \in DOMAIN multipliers THEN multipliers[logic_route] ELSE 1000

\* multipliers.get(logic_route, 1.0)
_get_logic_multiplier(logic_route) ==
    LET multipliers == plugin_routing.logic_multipliers IN
    IF logic_route \in DOMAIN multipliers THEN multipliers[logic_route] ELSE 1000

(***************************************************************************)
(* SessionManager: the active session and the trade permission.  A time    *)
(* "HH:MM" is the pair <<HH, MM>>; the sessions dict is a sequence in its  *)
(* insertion order.                                                        *)
(***************************************************************************)
time_to_minutes(time_str) == time_str[1] * 60 + time_str[2]

\* a window test that takes the end minute as part of the window
SessionContainsEndInclusive(session_data, current_minutes) ==
    LET start_mins == time_to_minutes(session_data.start_time)
        end_mins   == time_to_minutes(session_data.end_time)
    IN  IF start_mins > end_mins
        THEN current_minutes >= start_mins \/ current_minutes <= end_mins
        ELSE start_mins <= current_minutes /\ current_minutes <= end_mins

\* the test of get_current_session's loop body
SessionContains(session_data, current_minutes) ==
    LET start_mins == time_to_minutes(session_data.start_time)
        end_mins   == time_to_minutes(session_data.end_time)
    IN  IF start_mins > end_mins
        THEN current_minutes >= start_mins \/ current_minutes < end_mins
        ELSE start_mins <= current_minutes /\ current_minutes < end_mins

\* active_sessions, in the order the loop appended them
active_sessions(config, current_minutes) ==
    LET Test(session_data) == SessionContains(session_data, current_minutes)
    IN  SelectSeq(config.sessions, Test)

\* get_current_session: "none", or the first of the active sessions after the
\* stable sort by start minute, descending
get_current_session(config, current_time) ==
    LET current_minutes == current_time[1] * 60 + current_time[2]
        act == active_sessions(config, current_minutes)
    IN  IF act = <<>> THEN "none"
        ELSE LET latest == CHOOSE i \in 1..Len(act) :
                      /\ \A j \in 1..Len(act) :
                            time_to_minutes(act[j].start_time)
                                <= time_to_minutes(act[i].start_time)
                      /\ \A j \in 1..(i - 1) :
                            time_to_minutes(act[j].start_time)
                                < time_to_minutes(act[i].start_time)
             IN  act[latest].id

SessionData(config, session_id) ==
    LET i == CHOOSE j \in 1..Len(config.sessions) : config.sessions[j].id = session_id
    IN  config.sessions[i]

\* a master-switch test that never reports the switch as off
master_switch_off_never(config) == FALSE

\* not self.config.get('master_switch', True)
master_switch_off(config) == ~config.master_switch

\* check_trade_allowed without the symbol test
check_trade_allowed_any_symbol(config, symbol, current_time) ==
    IF master_switch_off(config)
    THEN [allowed |-> TRUE, reason |-> "master_switch_off"]
    ELSE LET current_session == get_current_session(config, current_time) IN
         IF current_session = "none"
         THEN [allowed |-> FALSE, reason |-> "no_active_session"]
         ELSE [allowed |-> TRUE, reason |-> "allowed"]

check_trade_allowed(config, symbol, current_time) ==
    IF master_switch_off(config)
    THEN [allowed |-> TRUE, reason |-> "master_switch_off"]
    ELSE LET current_session == get_current_session(config, current_time) IN
         IF current_session = "none"
         THEN [allowed |-> FALSE, reason |-> "no_active_session"]
         ELSE IF symbol \in SessionData(config, current_session).allowed_symbols
         THEN [allowed |-> TRUE, reason |-> "allowed"]
         ELSE [allowed |-> FALSE, reason |-> "not_allowed"]

\* "if session_id not in self.config['sessions']"
HasSession(config, session_id) ==
    \E i \in 1..Len(config.sessions) : config.sessions[i].id = session_id

\* f"{new_hours:02d}:{new_minutes:02d}" of a minute of the day
minutes_to_time(total_minutes) == <<total_minutes \div 60, total_minutes % 60>>

\* adjust_session_time: the configuration with the field of the session moved
\* by delta_minutes, wrapped around 24 hours
adjust_session_time(config, session_id, field, delta_minutes) ==
    LET Moved(time_str) ==
            minutes_to_time((time_to_minutes(time_str) + delta_minutes) % (24 * 60))
    IN  [config EXCEPT !.sessions =
            [i \in 1..Len(@) |->
                IF @[i].id # session_id THEN @[i]
                ELSE IF field = "start_time"
                THEN [@[i] EXCEPT !.start_time = Moved(@)]
                ELSE [@[i] EXCEPT !.end_time = Moved(@)]]]

\* toggle_symbol: the symbol removed from the session's allowed_symbols when
\* it is there, appended when it is not
toggle_symbol(config, session_id, symbol) ==
    [config EXCEPT !.sessions =
        [i \in 1..Len(@) |->
            IF @[i].id # session_id THEN @[i]
            ELSE [@[i] EXCEPT !.allowed_symbols =
                     IF symbol \in @ THEN @ \ {symbol} ELSE @ \cup {symbol}]]]

\* _get_default_config: the five default sessions
DefaultSessions ==
    << [id |-> "asian", start_time |-> <<5, 0>>, end_time |-> <<13, 30>>,
        allowed_symbols |-> {"USDJPY", "AUDJPY", "AUDUSD", "NZDUSD"}],
       [id |-> "london", start_time |-> <<13, 30>>, end_time |-> <<18, 30>>,
        allowed_symbols |-> {"EURUSD", "GBPUSD", "EURGBP", "GBPJPY", "EURJPY", "XAUUSD"}],
       [id |-> "overlap", start_time |-> <<18, 30>>, end_time |-> <<22, 30>>,
        allowed_symbols |-> {"EURUSD", "GBPUSD", "XAUUSD", "USDJPY"}],
       [id |-> "ny_late", start_time |-> <<22, 30>>, end_time |-> <<3, 30>>,
        allowed_symbols |-> {"USDJPY", "XAUUSD", "USDCAD"}],
       [id |-> "dead_zone", start_time |-> <<3, 30>>, end_time |-> <<5, 0>>,
        allowed_symbols |-> {}] >>

DefaultSessionConfig == [master_switch |-> TRUE, sessions |-> DefaultSessions]

(***************************************************************************)
(* The trading SessionManager (Trading_Bot/src/managers/session_manager.py)*)
(* over its database.  A session id is the number of the session, 0 is     *)
(* None.  The database is not part of the sources: each call to it either  *)
(* does what its name says or raises.                                      *)
(***************************************************************************)
MaxSessions == 2    \* sessions created by create_session
MaxRecords  == 3    \* update_logic_stats calls within one session
MaxMenuEdits == 3   \* steps that change a menu handler's configuration

\* SessionManager.__init__ over an empty database: no active session.
\* open: the sessions the database holds as open; logic_stats: the metadata
\* of the active session as the manager's connection reads it; recorded: the
\* trades update_logic_stats has counted into it, in order; uncommitted: the
\* connection holds an UPDATE of update_logic_stats whose commit failed.
TsmInit ==
    [active_session_id |-> 0, created |-> 0, open |-> {},
     logic_stats |-> EmptyDict, recorded |-> <<>>, uncommitted |-> FALSE]

\* the logic_stats entry create_session and update_logic_stats start from;
\* the averages are kept as sums (average = sum / trades)
ZeroStats == [trades |-> 0, wins |-> 0, losses |-> 0, pnl |-> 0,
              lot_multiplier_sum |-> 0, sl_multiplier_sum |-> 0]

\* closed trades as update_logic_stats reads them (multipliers in thousandths)
ClosedTrades ==
    {[trade_id |-> "t1", logic_type |-> "combinedlogic-1", pnl |-> 5,
      lot_multiplier |-> 1250, sl_multiplier |-> 1000],
     [trade_id |-> "t2", logic_type |-> "combinedlogic-2", pnl |-> -3,
      lot_multiplier |-> 1000, sl_multiplier |-> 1500]}

\* update_logic_stats, "Update stats": the entry of the trade's logic after
\* the trade is counted
updated_stats(stats, trade) ==
    [trades |-> stats.trades + 1,
     wins   |-> IF trade.pnl > 0 THEN stats.wins + 1 ELSE stats.wins,
     losses |-> IF trade.pnl > 0 THEN stats.losses ELSE stats.losses + 1,
     pnl    |-> stats.pnl + trade.pnl,
     lot_multiplier_sum |-> stats.lot_multiplier_sum + trade.lot_multiplier,
     sl_multiplier_sum  |-> stats.sl_multiplier_sum + trade.sl_multiplier]

(***************************************************************************)
(* Menu callbacks (Trading_Bot/src/menu/dual_order_menu_handler.py).       *)
(* A string is the sequence of its words and underscores:                  *)
(* "dual_config_v3_logic1" is <<"dual", "_", "config", "_", "v3", "_",     *)
(* "logic1">> and "xdual_" is <<"x", "dual", "_">>.  No word contains an   *)
(* underscore, so a substring search on the string is a search on the      *)
(* sequence.  A plugin name and a mode are kept as such strings too.       *)
(***************************************************************************)
\* "_".join(words)
Joined(words) ==
    [i \in 1..(2 * Len(words) - 1) |-> IF i % 2 = 1 THEN words[(i + 1) \div 2] ELSE "_"]

\* a prefix the handlers test for: the words joined, and a closing underscore
Prefix(words) == Joined(words) \o <<"_">>

\* data.startswith(prefix)
StartsWith(data, prefix) ==
    /\ Len(data) >= Len(prefix)
    /\ SubSeq(data, 1, Len(prefix)) = prefix

\* data.replace(old, ""): every occurrence of old is removed, scanning from
\* the left, wherever in the string it starts
RECURSIVE StrReplace(_, _)
StrReplace(data, old) ==
    IF data = <<>> THEN <<>>
    ELSE IF StartsWith(data, old)
    THEN StrReplace(SubSeq(data, Len(old) + 1, Len(data)), old)
    ELSE <<Head(data)>> \o StrReplace(Tail(data), old)

\* text.rsplit("_", 1): the text before its last underscore and the text
\* after it, or the text alone when it has no underscore
RSplitLast(text) ==
    LET at == {i \in 1..Len(text) : text[i] = "_"} IN
    IF at = {} THEN <<text>>
    ELSE LET last == CHOOSE i \in at : \A j \in at : j <= i IN
         <<SubSeq(text, 1, last - 1), SubSeq(text, last + 1, Len(text))>>

\* a handler's config section ("dual_order_system" / "reentry_system") that
\* is not in _config.  A section that is there is a dict, with present TRUE
\* and the keys it has ("enabled", "plugins").
NoSection == [present |-> FALSE]

\* both handlers constructed without a config: _config = {}
MenuConfigInit == [dual |-> NoSection, reentry |-> NoSection]

\* "if <section> not in self._config: self._config[<section>] = {...}"
EnsureSection(section, enabled) ==
    IF section.present THEN section
    ELSE [present |-> TRUE, enabled |-> enabled, plugins |-> EmptyDict]

\* "if 'plugins' not in <section>: <section>['plugins'] = {}"
EnsurePlugins(section) ==
    IF "plugins" \in DOMAIN section THEN section
    ELSE ("plugins" :> EmptyDict) @@ section

\* "if plugin not in <section>['plugins']: <section>['plugins'][plugin] = {...}"
EnsurePlugin(section, plugin, enabled) ==
    IF plugin \in DOMAIN section.plugins THEN section
    ELSE [section EXCEPT !.plugins = (plugin :> [enabled |-> enabled]) @@ @]

\* dict.get("enabled", False)
GetEnabled(dict) == IF "enabled" \in DOMAIN dict THEN dict.enabled ELSE FALSE

\* _toggle_plugin(plugin) of either handler, on its section
_toggle_plugin(section, plugin) ==
    IF plugin = <<"system">>
    THEN LET s == EnsureSection(section, FALSE) IN
         ("enabled" :> ~GetEnabled(s)) @@ s
    ELSE LET s == EnsurePlugin(EnsurePlugins(EnsureSection(section, TRUE)), plugin, FALSE) IN
         [s EXCEPT !.plugins[plugin] =
              ("enabled" :> ~GetEnabled(s.plugins[plugin])) @@ @]

\* DualOrderMenuHandler._set_mode(plugin, mode)
_set_mode(section, plugin, mode) ==
    LET s == EnsurePlugin(EnsurePlugins(EnsureSection(section, TRUE)), plugin, TRUE) IN
    [s EXCEPT !.plugins[plugin] = ("mode" :> mode) @@ @]

\* ReentryMenuHandler._toggle_reentry_type(plugin, reentry_type): only the
\* key "enabled" of the type's dict is written
_toggle_reentry_type(section, plugin, reentry_type) ==
    LET s == EnsurePlugin(EnsurePlugins(EnsureSection(section, TRUE)), plugin, TRUE)
        dict == s.plugins[plugin]
        type_dict == IF reentry_type \in DOMAIN dict THEN dict[reentry_type]
                     ELSE [enabled |-> FALSE]
    IN  [s EXCEPT !.plugins[plugin] =
             (reentry_type :> (("enabled" :> ~GetEnabled(type_dict)) @@ type_dict)) @@ @]

\* a dual handler that refuses a dual_set_mode_ callback it cannot split
dual_handle_callback_strict(section, callback_data) ==
    IF callback_data = Joined(<<"menu", "dual", "order">>)
    THEN [returned |-> TRUE, section |-> section]
    ELSE IF StartsWith(callback_data, Prefix(<<"dual", "config">>))
    THEN [returned |-> TRUE, section |-> section]
    ELSE IF StartsWith(callback_data, Prefix(<<"dual", "mode">>))
    THEN [returned |-> TRUE, section |-> section]
    ELSE IF StartsWith(callback_data, Prefix(<<"dual", "toggle">>))
    THEN [returned |-> TRUE,
          section |-> _toggle_plugin(section,
                          StrReplace(callback_data, Prefix(<<"dual", "toggle">>)))]
    ELSE IF StartsWith(callback_data, Prefix(<<"dual", "set", "mode">>))
    THEN LET parts == RSplitLast(StrReplace(callback_data,
                                            Prefix(<<"dual", "set", "mode">>))) IN
         IF Len(parts) = 2
         THEN [returned |-> TRUE, section |-> _set_mode(section, parts[1], parts[2])]
         ELSE [returned |-> FALSE, section |-> section]
    ELSE [returned |-> FALSE, section |-> section]

\* DualOrderMenuHandler.handle_callback(callback_data, user_id, message_id):
\* what it returns and the dual_order_system section it leaves
dual_handle_callback(section, callback_data) ==
    IF callback_data = Joined(<<"menu", "dual", "order">>)
    THEN [returned |-> TRUE, section |-> section]
    ELSE IF StartsWith(callback_data, Prefix(<<"dual", "config">>))
    THEN [returned |-> TRUE, section |-> section]
    ELSE IF StartsWith(callback_data, Prefix(<<"dual", "mode">>))
    THEN [returned |-> TRUE, section |-> section]
    ELSE IF StartsWith(callback_data, Prefix(<<"dual", "toggle">>))
    THEN [returned |-> TRUE,
          section |-> _toggle_plugin(section,
                          StrReplace(callback_data, Prefix(<<"dual", "toggle">>)))]
    ELSE IF StartsWith(callback_data, Prefix(<<"dual", "set", "mode">>))
    THEN LET parts == RSplitLast(StrReplace(callback_data,
                                            Prefix(<<"dual", "set", "mode">>))) IN
         IF Len(parts) = 2
         THEN [returned |-> TRUE, section |-> _set_mode(section, parts[1], parts[2])]
         ELSE [returned |-> TRUE, section |-> section]
    ELSE [returned |-> FALSE, section |-> section]

\* ReentryMenuHandler.handle_callback(callback_data, user_id, message_id)
reentry_handle_callback(section, callback_data) ==
    IF callback_data = Joined(<<"menu", "reentry">>)
    THEN [returned |-> TRUE, section |-> section]
    ELSE IF StartsWith(callback_data, Prefix(<<"reentry", "config">>))
    THEN [returned |-> TRUE, section |-> section]
    ELSE IF StartsWith(callback_data, Prefix(<<"reentry", "toggle">>))
    THEN [returned |-> TRUE,
          section |-> _toggle_plugin(section,
                          StrReplace(callback_data, Prefix(<<"reentry", "toggle">>)))]
    ELSE IF StartsWith(callback_data, Prefix(<<"reentry", "tp">>))
    THEN [returned |-> TRUE,
          section |-> _toggle_reentry_type(section,
                          StrReplace(callback_data, Prefix(<<"reentry", "tp">>)),
                          "tp_continuation")]
    ELSE IF StartsWith(callback_data, Prefix(<<"reentry", "sl">>))
    THEN [returned |-> TRUE,
          section |-> _toggle_reentry_type(section,
                          StrReplace(callback_data, Prefix(<<"reentry", "sl">>)),
                          "sl_hunt_recovery")]
    ELSE IF StartsWith(callback_data, Prefix(<<"reentry", "exit">>))
    THEN [returned |-> TRUE,
          section |-> _toggle_reentry_type(section,
                          StrReplace(callback_data, Prefix(<<"reentry", "exit">>)),
                          "exit_continuation")]
    ELSE [returned |-> FALSE, section |-> section]

(***************************************************************************)
(* PluginRegistry (src/core/plugin_system/plugin_registry.py).             *)
(***************************************************************************)
\* the plugins load_all_plugins finds under src/logic_plugins, in load order
LoadedPlugins == <<"combined_v3", "price_action_15m">>

\* plugin ids an alert can name: the loaded ones and one that was never loaded
PluginIds == {"combined_v3", "price_action_15m", "legacy_v2"}

\* no execute_hook is running
NoHook == [hook_name |-> "none"]

\* after load_all_plugins: every plugin enabled (config.get("enabled", True)).
\* importlib_util: whether the process has imported importlib.util, which the
\* registry's own `import importlib` does not do
RegistryInit(importlib_util) ==
    [plugins |-> LoadedPlugins,
     enabled |-> [i \in DOMAIN LoadedPlugins |-> TRUE],
     hook    |-> NoHook,
     importlib_util |-> importlib_util]

\* self.plugins.get(plugin_id): the position of the plugin, 0 for None
get_plugin(plugin_id) ==
    IF \E i \in DOMAIN registry.plugins : registry.plugins[i] = plugin_id
    THEN CHOOSE i \in DOMAIN registry.plugins : registry.plugins[i] = plugin_id
    ELSE 0

\* the words of the dispatch that signal_type.lower() contains
SignalWords(signal_type) ==
    CASE signal_type = "entry_v3"        -> {"entry"}
      [] signal_type = "Bullish_Exit"    -> {"exit"}
      [] signal_type = "REVERSAL_v3"     -> {"reversal"}
      [] signal_type = "entry_reversal"  -> {"entry", "reversal"}
      [] OTHER                           -> {}

\* route_alert_to_plugin(alert, plugin_id) up to its await: the plugin method
\* it invokes, or the dict it returns without invoking one
route_alert_to_plugin(signal_type, plugin_id) ==
    LET plugin == get_plugin(plugin_id) IN
    IF plugin = 0 THEN [invoked |-> "none", result |-> "plugin_not_found"]
    ELSE IF ~registry.enabled[plugin]
    THEN [invoked |-> "none", result |-> "plugin_disabled"]
    ELSE IF signal_type = "" THEN [invoked |-> "none", result |-> "missing_signal_type"]
    ELSE IF "entry" \in SignalWords(signal_type)
    THEN [invoked |-> "process_entry_signal", result |-> "awaited"]
    ELSE IF "exit" \in SignalWords(signal_type)
    THEN [invoked |-> "process_exit_signal", result |-> "awaited"]
    ELSE IF "reversal" \in SignalWords(signal_type)
    THEN [invoked |-> "process_reversal_signal", result |-> "awaited"]
    ELSE [invoked |-> "none", result |-> "unknown_signal_type"]

\* hasattr(plugin, "on_" + hook_name)
HasHandler(plugin_id, hook_name) ==
    plugin_id = "combined_v3" /\ hook_name \in {"signal_received", "sl_hit"}

\* the handler has an await in its body: on_sl_hit awaits the re-entry service,
\* on_signal_received awaits nothing
HandlerAwaits(hook_name) == hook_name = "sl_hit"

(***************************************************************************)
(* PluginContextManager (Trading_Bot/src/telegram/core/                    *)
(* plugin_context_manager.py).  Times are whole seconds.                   *)
(***************************************************************************)
DEFAULT_EXPIRY_SECONDS == 300
VALID_PLUGINS == {"v3", "v6", "both"}

\* expiry_seconds was not passed (None)
NoExpiryGiven == -1

\* no context set yet: _user_contexts = {}; asked: per chat, the time and the
\* expiry_seconds of its last accepted set_plugin_context
CtxInit == [now |-> 0, user_contexts |-> EmptyDict, asked |-> EmptyDict]

\* expiry = expiry_seconds or cls.DEFAULT_EXPIRY_SECONDS
expiry_of(expiry_seconds) ==
    IF expiry_seconds = NoExpiryGiven \/ expiry_seconds = 0
    THEN DEFAULT_EXPIRY_SECONDS ELSE expiry_seconds

\* elapsed > context['expires_in'] at the current time
ContextExpired(context) == ctx.now - context.timestamp > context.expires_in

(***************************************************************************)
(* Dual orders: the ids of the two legs of a trade.                        *)
(***************************************************************************)
OrderA(t) == t
OrderB(t) == IF t = "t1" THEN "t1_b" ELSE "t2_b"
OrderIds  == {OrderA(t) : t \in Trades} \cup {OrderB(t) : t \in Trades}

(***************************************************************************)
(* Initial states.                                                         *)
(***************************************************************************)
AllEnabled  == [sl_hunt_recovery |-> TRUE, tp_continuation |-> TRUE,
                exit_continuation |-> TRUE]
AllDisabled == [sl_hunt_recovery |-> FALSE, tp_continuation |-> FALSE,
                exit_continuation |-> FALSE]

\* CombinedV3Plugin.__init__: no services injected, nothing tracked.
PluginInit ==
    /\ reentry_service = FALSE
    /\ chain_levels = [t \in Trades |-> 0]
    /\ active_orders = {}
    /\ issued = {}
    /\ tasks = [k \in TaskIds |-> Idle]
    /\ monitors = [t \in Trades |-> <<>>]
    /\ events_created = [t \in Trades |-> 0]
    /\ close_log = [o \in OrderIds |-> <<>>]
    /\ reentries = [t \in Trades |-> 0]
    /\ last_recovery = NoSignal

\* ServiceAPI.__init__ with every service constructed, trading enabled.
RiskInitServicesUp ==
    /\ trading_enabled = TRUE
    /\ order_service = TRUE
    /\ risk_service = TRUE
    /\ daily_loss = 0
    /\ limit_result = NoResult
    /\ limit_call = Idle

EntryInitQuiet ==
    /\ shadow_mode = FALSE
    /\ close_api = FALSE
    /\ etasks = [k \in ETaskIds |-> Idle]
    /\ port_req = NoRequest
    /\ entry_result = NoResult

TpInitQuiet ==
    /\ tp_event = NoEvent
    /\ tp_signal = NoSignal
    /\ tp_result = NoResult

\* no dual-order service injected, nothing placed
DualInitQuiet ==
    /\ dual_order_service = FALSE
    /\ dual_results = [t \in Trades |-> NoResult]
    /\ service_calls = [t \in Trades |-> 0]
    /\ dual_pending = [t \in Trades |-> <<>>]

RouteInitQuiet ==
    /\ plugin_routing = NoRouting
    /\ route_result = NoResult
    /\ routed = EmptyDict

SessionInitQuiet ==
    /\ session_config = DefaultSessionConfig
    /\ session_result = NoResult
    /\ session_edits = 0

AuxInitBase ==
    /\ smart_lot = NoResult
    /\ tsm = TsmInit /\ tsm_result = NoResult
    /\ api_result = NoResult /\ api_call = Idle
    /\ reg_result = NoResult
    /\ ctx = CtxInit /\ ctx_result = NoResult

AuxInitRest ==
    /\ AuxInitBase
    /\ registry = RegistryInit(FALSE)

AuxInitQuiet ==
    /\ AuxInitRest
    /\ menu_config = MenuConfigInit /\ menu_result = NoResult /\ menu_edits = 0

ExtInitQuiet ==
    /\ DualInitQuiet /\ RouteInitQuiet /\ SessionInitQuiet
    /\ escaped = FALSE
    /\ AuxInitQuiet

Init ==
    /\ PluginInit
    /\ cfg \in {AllEnabled, AllDisabled}
    /\ counting = FALSE
    /\ RiskInitServicesUp /\ EntryInitQuiet /\ TpInitQuiet /\ ExtInitQuiet

(***************************************************************************)
(* Re-entry actions.                                                       *)
(***************************************************************************)
\* The coroutine slot a newly delivered event runs in: the first free one.
FreeTask(k) ==
    /\ tasks[k] = Idle
    /\ \A j \in TaskIds : j < k => tasks[j] # Idle

\* The slots after a coroutine has ended: the running coroutines, in the
\* order they were started, fill the first slots.
Running(ts) ==
    LET busy == SelectSeq([i \in 1..NTasks |-> ts[i]], LAMBDA task : task # Idle)
    IN  [k \in TaskIds |-> IF k <= Len(busy) THEN busy[k] ELSE Idle]

OthersUnchanged == UNCHANGED <<riskVars, entryVars, tpVars, extVars>>

\* set_reentry_service
SetReentryService ==
    /\ ~reentry_service
    /\ reentry_service' = TRUE
    /\ last_recovery' = NoSignal
    /\ UNCHANGED <<cfg, chain_levels, active_orders, issued, tasks, monitors,
                   events_created, close_log, counting, reentries>>
    /\ OthersUnchanged

\* set_dual_order_service
SetDualOrderService ==
    /\ ~dual_order_service
    /\ dual_order_service' = TRUE
    /\ last_recovery' = NoSignal
    /\ UNCHANGED <<reentry_service, cfg, chain_levels, active_orders, issued, tasks,
                   monitors, events_created, close_log, counting, reentries>>
    /\ UNCHANGED <<dual_results, service_calls, dual_pending>>
    /\ UNCHANGED <<riskVars, entryVars, tpVars, routeVars, sessionVars, escaped, auxVars>>

\* DualOrderService.create_dual_orders: the DualOrderResult for a trade whose
\* legs were accepted (a_ok, b_ok) or refused by the broker; a refused leg
\* has no id.
DualOrderResult(t, a_ok, b_ok) ==
    [order_a_id |-> IF a_ok THEN OrderA(t) ELSE "None",
     order_b_id |-> IF b_ok THEN OrderB(t) ELSE "None",
     error |-> "None"]

\* tracking that discards the placed leg when the other one failed
track_dual_result_rolls_back(orders, result) ==
    IF result.order_a_id = "None" \/ result.order_b_id = "None"
    THEN orders
    ELSE orders \cup {result.order_a_id, result.order_b_id}

\* create_dual_orders, "Track orders locally": each leg that has an id
track_dual_result(orders, result) ==
    orders \cup ({result.order_a_id, result.order_b_id} \ {"None"})

\* The ids of the legs a DualOrderResult carries.
LegIds(result) == {result.order_a_id, result.order_b_id} \ {"None"}

\* a sequence without its i-th element
WithoutIndex(seq, i) == SubSeq(seq, 1, i - 1) \o SubSeq(seq, i + 1, Len(seq))

\* calls the dual-order service has received so far
ServiceCallsMade == service_calls["t1"] + service_calls["t2"]

\* create_dual_orders(signal) for the signal of trade t, up to its await of
\* DualOrderService.create_dual_orders: without a service it returns the
\* error result at once; with one it calls the service, which places the legs
\* (a_ok, b_ok) at the broker, and is suspended before anything is tracked.
CreateDualOrders(t, a_ok, b_ok) ==
    /\ IF ~dual_order_service
       THEN /\ dual_results' = [dual_results EXCEPT ![t] =
                   [order_a_id |-> "None", order_b_id |-> "None",
                    error |-> "Service not available"]]
            /\ UNCHANGED <<service_calls, dual_pending, issued>>
       ELSE LET result == DualOrderResult(t, a_ok, b_ok) IN
            /\ ServiceCallsMade < MaxCreates
            /\ service_calls' = [service_calls EXCEPT ![t] = @ + 1]
            /\ dual_pending' = [dual_pending EXCEPT ![t] = Append(@, result)]
            /\ issued' = issued \cup LegIds(result)
            /\ UNCHANGED dual_results
    /\ last_recovery' = NoSignal
    /\ UNCHANGED <<reentry_service, cfg, chain_levels, active_orders, tasks, monitors,
                   events_created, close_log, counting, reentries>>
    /\ UNCHANGED dual_order_service
    /\ UNCHANGED <<riskVars, entryVars, tpVars, routeVars, sessionVars, escaped, auxVars>>

\* create_dual_orders resumed with the result of its i-th awaited service
\* call for trade t: "Track orders locally", then the result is returned.
CreateDualOrdersReturn(t, i) ==
    /\ i \in 1..Len(dual_pending[t])
    /\ dual_results' = [dual_results EXCEPT ![t] = dual_pending[t][i]]
    /\ active_orders' = track_dual_result(active_orders, dual_pending[t][i])
    /\ dual_pending' = [dual_pending EXCEPT ![t] = WithoutIndex(@, i)]
    /\ last_recovery' = NoSignal
    /\ UNCHANGED <<reentry_service, cfg, chain_levels, issued, tasks, monitors,
                   events_created, close_log, counting, reentries>>
    /\ UNCHANGED <<dual_order_service, service_calls>>
    /\ UNCHANGED <<riskVars, entryVars, tpVars, routeVars, sessionVars, escaped, auxVars>>

\* on_order_b_closed(order_id, reason) for leg B of trade t
OnOrderBClosed(t, reason) ==
    /\ OrderB(t) \in issued
    /\ Len(close_log[OrderB(t)]) < MaxCloses
    /\ close_log' = [close_log EXCEPT ![OrderB(t)] = Append(@, reason)]
    /\ active_orders' = active_orders \ {OrderB(t)}
    /\ last_recovery' = NoSignal
    /\ UNCHANGED <<reentry_service, cfg, chain_levels, issued, tasks, monitors,
                   events_created, counting, reentries>>
    /\ OthersUnchanged

\* on_order_a_closed(order_id, reason), run up to the await inside on_sl_hit.
OnOrderAClosed(k, order_id, reason) ==
    /\ FreeTask(k)
    /\ order_id \in issued
    /\ Len(close_log[order_id]) < MaxCloses
    /\ close_log' = [close_log EXCEPT ![order_id] = Append(@, reason)]
    /\ active_orders' = active_orders \ {order_id}
    /\ IF order_id \in active_orders /\ reason = "SL_HIT"
       THEN /\ events_created' = [events_created EXCEPT ![order_id] = @ + 1]
            /\ tasks' = [tasks EXCEPT ![k] = on_sl_hit_begin(ClosedOrderEvent(order_id))]
       ELSE UNCHANGED <<events_created, tasks>>
    /\ last_recovery' = NoSignal
    /\ UNCHANGED <<reentry_service, cfg, chain_levels, issued, monitors, counting,
                   reentries>>
    /\ OthersUnchanged

HandlerFrame ==
    /\ last_recovery' = NoSignal
    /\ UNCHANGED <<reentry_service, cfg, chain_levels, active_orders, issued, monitors,
                   events_created, close_log, counting, reentries>>
    /\ OthersUnchanged

\* on_sl_hit(event) called by the engine, up to its await.
OnSlHit(k, t) ==
    /\ FreeTask(k)
    /\ tasks' = [tasks EXCEPT ![k] = on_sl_hit_begin(EngineEvent(t, "sl"))]
    /\ HandlerFrame

\* on_tp_hit(event) called by the engine, up to its await.
OnTpHit(k, t) ==
    /\ FreeTask(k)
    /\ tasks' = [tasks EXCEPT ![k] = on_tp_hit_begin(EngineEvent(t, "tp"))]
    /\ HandlerFrame

\* on_exit(event) called by the engine, up to its await.
OnExit(k, t) ==
    /\ FreeTask(k)
    /\ tasks' = [tasks EXCEPT ![k] = on_exit_begin(EngineEvent(t, "exit"))]
    /\ HandlerFrame

\* The awaited ReentryService.start_* call runs: it starts a monitor, or drops
\* the request (duplicate trade_id, or the service declines it).
ServiceStart(k, accept) ==
    /\ tasks[k].pc = "starting"
    /\ monitors' = start_monitor(monitors, tasks[k], accept)
    /\ tasks' = [tasks EXCEPT ![k] = [@ EXCEPT !.pc = "started",
                                               !.success = (monitors' # monitors)]]
    /\ last_recovery' = NoSignal
    /\ UNCHANGED <<reentry_service, cfg, chain_levels, active_orders, issued,
                   events_created, close_log, counting, reentries>>
    /\ OthersUnchanged

EndFrame ==
    /\ last_recovery' = NoSignal
    /\ UNCHANGED <<reentry_service, cfg, active_orders, issued, monitors,
                   events_created, close_log, counting, reentries>>
    /\ OthersUnchanged

\* on_sl_hit resumes after its await.
OnSlHitEnd(k) ==
    /\ tasks[k].pc = "started" /\ tasks[k].kind = "sl"
    /\ chain_levels' = on_sl_hit_end(tasks[k])
    /\ tasks' = Running([tasks EXCEPT ![k] = Idle])
    /\ EndFrame

\* on_tp_hit resumes after its await.
OnTpHitEnd(k) ==
    /\ tasks[k].pc = "started" /\ tasks[k].kind = "tp"
    /\ chain_levels' = on_tp_hit_end(tasks[k])
    /\ tasks' = Running([tasks EXCEPT ![k] = Idle])
    /\ EndFrame

\* on_exit resumes after its await.
OnExitEnd(k) ==
    /\ tasks[k].pc = "started" /\ tasks[k].kind = "exit"
    /\ chain_levels' = on_exit_end(tasks[k])
    /\ tasks' = Running([tasks EXCEPT ![k] = Idle])
    /\ EndFrame

\* the call process_entry_signal makes to the order manager (plugin.py 435-439)
PlaceDualMethod == "place_v3_dual_orders"

EntryPlacementCall(alert) ==
    [method |-> PlaceDualMethod, alert |-> alert,
     logic_route |-> _route_to_logic(alert),
     logic_multiplier |-> _get_logic_multiplier(_route_to_logic(alert))]

\* the call on_recovery_signal makes to the order manager (plugin.py 1053)
RecoveryPlacementCall(reentry_signal) ==
    [method |-> "execute_recovery_order", reentry_signal |-> reentry_signal]

\* The awaited ReentryService.start_* call raises: on_sl_hit, on_tp_hit and
\* on_exit have no handler around it, so the exception leaves them (and
\* on_order_a_closed, when it was the caller).
ServiceStartRaises(k) ==
    /\ tasks[k].pc = "starting"
    /\ tasks' = Running([tasks EXCEPT ![k] = Idle])
    /\ escaped' = TRUE
    /\ last_recovery' = NoSignal
    /\ UNCHANGED <<reentry_service, cfg, chain_levels, active_orders, issued, monitors,
                   events_created, close_log, counting, reentries>>
    /\ UNCHANGED <<riskVars, entryVars, tpVars, dualVars, routeVars, sessionVars, auxVars>>

\* A monitor detects its recovery: the service calls the plugin's recovery
\* callback, on_recovery_signal builds the re-entry signal and the order
\* manager executes it through the dual-placement path (broker_ok: the broker
\* accepts the order).  The monitor ends RECOVERED.
MonitorRecover(t, i, broker_ok) ==
    /\ i \in DOMAIN monitors[t]
    /\ counting => reentries[t] < MaxReentries
    /\ LET m == monitors[t][i]
           signal == on_recovery_signal(recovery_event(m))
           result == broker_ok /\ PlaceDualOutcome = "forwarded"
       IN  /\ reentries' = IF result /\ counting
                           THEN [reentries EXCEPT ![t] = @ + 1]
                           ELSE reentries
           /\ last_recovery' = IF result
                               THEN [signal |-> signal, closed |-> m.closed,
                                     call |-> RecoveryPlacementCall(signal)]
                               ELSE NoSignal
    /\ monitors' = [monitors EXCEPT ![t] = RemoveAt(@, i)]
    /\ UNCHANGED <<reentry_service, cfg, chain_levels, active_orders, issued, tasks,
                   events_created, close_log, counting>>
    /\ OthersUnchanged

\* A monitor's window ends without recovery: EXPIRED, discarded.
MonitorExpire(t, i) ==
    /\ i \in DOMAIN monitors[t]
    /\ monitors[t][i].reentry_type # "tp_continuation"
    /\ monitors' = [monitors EXCEPT ![t] = RemoveAt(@, i)]
    /\ last_recovery' = NoSignal
    /\ UNCHANGED <<reentry_service, cfg, chain_levels, active_orders, issued, tasks,
                   events_created, close_log, counting, reentries>>
    /\ OthersUnchanged

\* a RecordTradeResult that cancels the monitors once the limit is reached
RecordTradeResultCancels(loss) ==
    /\ daily_loss + loss <= MaxLoss
    /\ daily_loss' = daily_loss + loss
    /\ monitors' = IF daily_loss + loss >= daily_limit
                   THEN [t \in Trades |-> <<>>] ELSE monitors
    /\ last_recovery' = NoSignal
    /\ UNCHANGED <<trading_enabled, order_service, risk_service, limit_result,
                   limit_call>>
    /\ UNCHANGED <<reentry_service, cfg, chain_levels, active_orders, issued, tasks,
                   events_created, close_log, counting, reentries>>
    /\ port_req' = NoRequest /\ entry_result' = NoResult
    /\ UNCHANGED <<shadow_mode, close_api, etasks, tpVars, extVars>>

\* RecordTradeResult(pnl) for a losing close: the daily loss grows.
RecordTradeResult(loss) ==
    /\ daily_loss + loss <= MaxLoss
    /\ daily_loss' = daily_loss + loss
    /\ last_recovery' = NoSignal
    /\ UNCHANGED <<trading_enabled, order_service, risk_service, limit_result,
                   limit_call>>
    /\ UNCHANGED <<reentry_service, cfg, chain_levels, active_orders, issued, tasks,
                   monitors, events_created, close_log, counting, reentries>>
    /\ port_req' = NoRequest /\ entry_result' = NoResult
    /\ UNCHANGED <<shadow_mode, close_api, etasks, tpVars, extVars>>

CloseReasons == {"SL_HIT", "TP_HIT", "MANUAL"}

(***************************************************************************)
(* Spec: the re-entry handlers driven by the engine's close events, the    *)
(* ReentryService and its monitors.                                        *)
(***************************************************************************)
Next ==
    \/ SetReentryService
    \/ \E k \in TaskIds, t \in Chains : OnSlHit(k, t)
    \/ \E k \in TaskIds, t \in Chains : OnTpHit(k, t)
    \/ \E k \in TaskIds, t \in Chains : OnExit(k, t)
    \/ \E k \in TaskIds, accept \in BOOLEAN : ServiceStart(k, accept)
    \/ \E k \in TaskIds : OnSlHitEnd(k)
    \/ \E k \in TaskIds : OnTpHitEnd(k)
    \/ \E k \in TaskIds : OnExitEnd(k)
    \/ \E t \in Chains, i \in 1..NTasks, ok \in BOOLEAN : MonitorRecover(t, i, ok)
    \/ \E t \in Chains, i \in 1..NTasks : MonitorExpire(t, i)

Spec == Init /\ [][Next]_vars

\* SpecLoop: the same system with the re-entries of each chain counted.
InitCounting ==
    /\ PluginInit
    /\ cfg \in {AllEnabled, AllDisabled}
    /\ counting = TRUE
    /\ RiskInitServicesUp /\ EntryInitQuiet /\ TpInitQuiet /\ ExtInitQuiet

SpecLoop == InitCounting /\ [][Next]_vars

(***************************************************************************)
(* Claims about the re-entry handlers.                                     *)
(***************************************************************************)
InFlight(k) == tasks[k].pc \in {"starting", "started"}

\* C1: the chain level recorded for a trade never exceeds max_chain_level, and
\* an SL-hunt or TP-continuation handler goes on to start a recovery (and to
\* increment the level) only from a level strictly below the cap.
ChainLevelWithinCap ==
    /\ \A t \in Trades : chain_levels[t] <= get_max_chain_level
    /\ \A k \in TaskIds :
          (InFlight(k) /\ tasks[k].kind \in {"sl", "tp"})
              => tasks[k].current_level < get_max_chain_level

\* The cap is reached while a further handler of the same trade, which read
\* the level below the cap, is still in flight.
ChainLevelAtCapReached ==
    \E t \in Trades, k \in TaskIds :
        /\ chain_levels[t] = get_max_chain_level
        /\ InFlight(k) /\ tasks[k].kind \in {"sl", "tp"}
        /\ tasks[k].event.trade_id = t

\* C2: at most one recovery monitor is active per trade_id, and a start that
\* arrives while one is active neither adds nor replaces a monitor.
OneMonitorPerTrade ==
    /\ [](\A t \in Trades : Len(monitors[t]) <= 1)
    /\ [][\A t \in Trades :
            (monitors[t] # <<>> /\ monitors'[t] # <<>>) => monitors'[t] = monitors[t]]_vars

\* Two handlers of the same trade overlapped at their await: the first started
\* the monitor, the later one was answered False while that monitor is active.
DuplicateStartDropped ==
    \E t \in Trades, k1, k2 \in TaskIds :
        /\ k1 # k2
        /\ Len(monitors[t]) = 1
        /\ tasks[k1].pc = "started" /\ tasks[k1].success
        /\ tasks[k2].pc = "started" /\ ~tasks[k2].success
        /\ tasks[k1].event.trade_id = t /\ tasks[k2].event.trade_id = t

\* C4: a chain has at most max_chain_level re-entries, whatever re-entry types
\* occur along it.
ChainBoundedByCap ==
    \A t \in Trades : reentries[t] <= get_max_chain_level

\* C5: a recovery order for a trade that closed at chain level n carries
\* chain_level n + 1.
RecoveryCarriesNextLevel ==
    last_recovery # NoSignal
        => last_recovery.signal.chain_level = last_recovery.closed + 1

\* An SL close at level 0 recovered with chain_level 1, and a close at a
\* higher level recovered as well.
RecoveryAtLevelOne ==
    /\ last_recovery # NoSignal
    /\ last_recovery.signal.recovery_type = "sl_hunt"
    /\ last_recovery.closed = 0
    /\ last_recovery.signal.chain_level = 1

(***************************************************************************)
(* Entry signals: process_entry_signal and the aggressive-reversal step.   *)
(***************************************************************************)
\* the alerts fed to process_entry_signal
Alerts ==
    [signal_type : {"Golden_Pocket_Flip", "Momentum_Breakout"},
     symbol : {"EURUSD"},
     direction : {"buy", "BUY", "sell", "SELL"},
     tf : {"240"},
     consensus_score : {3, 7}]

aggressive_reversal_signals ==
    {"Liquidity_Trap_Reversal", "Golden_Pocket_Flip", "Screener_Full_Bullish",
     "Screener_Full_Bearish"}

_is_aggressive_reversal_signal(alert) ==
    alert.signal_type \in aggressive_reversal_signals \/ alert.consensus_score >= 7

\* _handle_aggressive_reversal: the side whose positions it asks to close
close_direction(alert) == IF alert.direction = "buy" THEN "SELL" ELSE "BUY"

\* the side opposite to a signal's direction
OppositeSide(direction) == IF Upper(direction) = "BUY" THEN "SELL" ELSE "BUY"

FreeETask(k) ==
    /\ etasks[k] = Idle
    /\ \A j \in ETaskIds : j < k => etasks[j] # Idle

EntryFrame == UNCHANGED <<reentryVars, riskVars, shadow_mode, close_api, tpVars, extVars>>

\* process_entry_signal after the reversal step: routing, then the shadow
\* branch, or the call of the order manager's place_v3_dual_orders, at whose
\* await the coroutine is suspended.
PlaceStep(k, task) ==
    LET logic_route == _route_to_logic(task.alert) IN
    IF shadow_mode
    THEN /\ etasks' = [etasks EXCEPT ![k] = Idle]
         /\ port_req' = NoRequest
         /\ entry_result' = [status |-> "shadow", logic_route |-> logic_route]
    ELSE /\ etasks' = [etasks EXCEPT ![k] =
                [pc |-> "placing", alert |-> task.alert, reversal |-> task.reversal,
                 closed_side |-> task.closed_side, at_limit |-> LimitReached]]
         /\ port_req' = [op |-> "place", task |-> k, symbol |-> task.alert.symbol,
                         direction |-> task.alert.direction,
                         logic_route |-> logic_route,
                         logic_multiplier |-> _get_logic_multiplier(logic_route)]
         /\ entry_result' = NoResult

\* process_entry_signal(alert) up to its first await.  An aggressive signal
\* awaits the close request of _handle_aggressive_reversal; when the
\* service_api object has no close_positions_by_direction the call raises
\* before any request is made, the error is caught and the signal goes on.
ProcessEntrySignal(k, alert) ==
    /\ FreeETask(k)
    /\ IF _is_aggressive_reversal_signal(alert)
       THEN IF close_api
            THEN /\ etasks' = [etasks EXCEPT ![k] =
                       [pc |-> "closing", alert |-> alert, reversal |-> "issued",
                        closed_side |-> close_direction(alert)]]
                 /\ port_req' = [op |-> "close", task |-> k, symbol |-> alert.symbol,
                                 direction |-> close_direction(alert)]
                 /\ entry_result' = NoResult
            ELSE PlaceStep(k, [pc |-> "routing", alert |-> alert, reversal |-> "error",
                               closed_side |-> "none"])
       ELSE PlaceStep(k, [pc |-> "routing", alert |-> alert, reversal |-> "none",
                          closed_side |-> "none"])
    /\ EntryFrame

\* close_positions_by_direction returns (ok) or raises; process_entry_signal
\* resumes and goes on to placement either way.
CloseReturn(k, ok) ==
    /\ etasks[k].pc = "closing"
    /\ PlaceStep(k, [etasks[k] EXCEPT !.reversal = IF ok THEN "success" ELSE "error"])
    /\ EntryFrame

\* place_v3_dual_orders returns or raises (ok = FALSE).  When it raises,
\* process_entry_signal returns the error result of its except clause,
\* whatever the state of the manager; when it returns, process_entry_signal
\* returns the manager's result, which is a skip when its dual-placement path
\* does not forward the request.  order_sent: the manager forwarded an order
\* to the broker; at_limit: the daily limit was reached when the request
\* was made.
PlaceReturn(k, ok) ==
    /\ etasks[k].pc = "placing"
    /\ etasks' = [etasks EXCEPT ![k] = Idle]
    /\ port_req' = NoRequest
    /\ entry_result' =
           IF ~ok
           THEN [status |-> "error", reason |-> "exception",
                 order_sent |-> (PlaceDualOutcome = "forwarded"),
                 at_limit |-> etasks[k].at_limit]
           ELSE IF PlaceDualOutcome # "forwarded"
           THEN [status |-> "skipped", reason |-> PlaceDualOutcome, order_sent |-> FALSE,
                 at_limit |-> etasks[k].at_limit]
           ELSE [status |-> "success", reason |-> "none",
                 order_sent |-> TRUE, at_limit |-> etasks[k].at_limit]
    /\ EntryFrame

LimitFrame ==
    /\ port_req' = NoRequest /\ entry_result' = NoResult
    /\ UNCHANGED <<trading_enabled, order_service, risk_service, daily_loss>>
    /\ UNCHANGED <<reentryVars, shadow_mode, close_api, etasks, tpVars, extVars>>

\* ServiceAPI.check_daily_limit called by a plugin: with a risk service the
\* call is handed to it and awaited, without one it returns at once
CheckDailyLimit ==
    /\ limit_call = Idle
    /\ IF risk_service
       THEN /\ limit_call' = [pc |-> "called"]
            /\ UNCHANGED limit_result
       ELSE /\ limit_result' = check_daily_limit(NoResult)
            /\ UNCHANGED limit_call
    /\ LimitFrame

\* the risk service evaluates the awaited call against the risk state of the
\* moment
RiskServiceAnswers ==
    /\ limit_call.pc = "called"
    /\ limit_call' = [pc |-> "answered", answer |-> risk_check_daily_limit]
    /\ UNCHANGED limit_result
    /\ LimitFrame

\* the awaited call returns and check_daily_limit returns its answer
CheckDailyLimitReturn ==
    /\ limit_call.pc = "answered"
    /\ limit_result' = check_daily_limit(limit_call.answer)
    /\ limit_call' = Idle
    /\ LimitFrame

\* ServiceAPI._init_services: the order service is assigned before the risk
\* service is constructed, and an exception leaves the later ones None.
ServicesAfterInit == {<<FALSE, FALSE>>, <<TRUE, FALSE>>, <<TRUE, TRUE>>}

InitEntry ==
    /\ PluginInit
    /\ cfg = AllEnabled
    /\ counting = FALSE
    /\ trading_enabled \in BOOLEAN
    /\ \E sv \in ServicesAfterInit : order_service = sv[1] /\ risk_service = sv[2]
    /\ daily_loss = 0
    /\ limit_result = NoResult
    /\ limit_call = Idle
    /\ shadow_mode \in BOOLEAN
    /\ close_api \in BOOLEAN
    /\ etasks = [k \in ETaskIds |-> Idle]
    /\ port_req = NoRequest
    /\ entry_result = NoResult
    /\ TpInitQuiet /\ ExtInitQuiet

NextEntry ==
    \/ \E k \in ETaskIds, alert \in Alerts : ProcessEntrySignal(k, alert)
    \/ \E k \in ETaskIds, ok \in BOOLEAN : CloseReturn(k, ok)
    \/ \E k \in ETaskIds, ok \in BOOLEAN : PlaceReturn(k, ok)
    \/ RecordTradeResult(1)
    \/ CheckDailyLimit
    \/ RiskServiceAnswers
    \/ CheckDailyLimitReturn

SpecEntry == InitEntry /\ [][NextEntry]_vars

\* C6: when the placement request of an aggressive-reversal signal is issued,
\* the request to close the positions on the side opposite to the signal has
\* been issued for it and has returned.
CloseOppositeBeforePlacing ==
    \A k \in ETaskIds :
        (etasks[k].pc = "placing" /\ _is_aggressive_reversal_signal(etasks[k].alert))
            => /\ etasks[k].reversal \in {"success", "error"}
               /\ etasks[k].closed_side = OppositeSide(etasks[k].alert.direction)

\* C22: the close request of the aggressive-reversal step names the side
\* opposite to the signal's direction, for the directions BUY and SELL: a BUY
\* signal closes SELL positions and a SELL signal closes BUY positions.
ReversalClosesOppositeOfBuySell ==
    port_req.op = "close" =>
        LET alert == etasks[port_req.task].alert IN
        alert.direction \in {"BUY", "SELL"} =>
            port_req.direction = OppositeSide(alert.direction)

DailyLimitFailsClosed ==
    (limit_result # NoResult /\ ~risk_service) => limit_result.can_trade = FALSE

\* C8: a placement request made for an entry once the daily loss has reached
\* the daily limit is answered with a risk-limit skip and no order is sent to
\* the broker for it.
LimitBlocksPlacement ==
    (/\ entry_result # NoResult
     /\ entry_result.status \in {"success", "error", "skipped"}
     /\ entry_result.at_limit)
        => /\ entry_result.status = "skipped"
           /\ entry_result.reason = "risk_limit"
           /\ ~entry_result.order_sent

(***************************************************************************)
(* SpecTP: on_recovery_signal applied to recovery events of every level.   *)
(***************************************************************************)
TpEvents ==
    [trade_id : {"t1"}, symbol : {"EURUSD"},
     reentry_type : {"tp_continuation", "sl_hunt"},
     direction : {"BUY", "SELL", "buy", "sell"},
     entry_price : {100, 105}, exit_price : {110},
     sl_price : {90, 100, 120},
     chain_level : 0..MaxTpLevel]

InitTP ==
    /\ PluginInit
    /\ cfg = AllEnabled
    /\ counting = FALSE
    /\ RiskInitServicesUp /\ EntryInitQuiet /\ ExtInitQuiet
    /\ tp_event \in TpEvents
    /\ tp_signal = NoSignal
    /\ tp_result = NoResult

\* on_recovery_signal(event) up to its await: it builds the re-entry signal
\* and calls the order manager's execute_recovery_order with it
OnRecoverySignal ==
    /\ tp_signal = NoSignal
    /\ tp_signal' = on_recovery_signal(tp_event)
    /\ port_req' = [op |-> "recovery", call |-> RecoveryPlacementCall(tp_signal')]
    /\ tp_result' = [pc |-> "executing"]
    /\ UNCHANGED <<tp_event, reentryVars, riskVars, shadow_mode, close_api, etasks,
                   entry_result, extVars>>

\* execute_recovery_order returns a result, returns nothing ("failed") or
\* raises: on_recovery_signal returns True for a result and False otherwise
OnRecoverySignalReturn(outcome) ==
    /\ tp_result # NoResult /\ tp_result.pc = "executing"
    /\ tp_result' = [pc |-> "returned", returned |-> (outcome = "executed"),
                     outcome |-> outcome]
    /\ port_req' = NoRequest
    /\ UNCHANGED <<tp_event, tp_signal, reentryVars, riskVars, shadow_mode, close_api,
                   etasks, entry_result, extVars>>

NextTP ==
    \/ OnRecoverySignal
    \/ \E outcome \in {"executed", "failed", "raises"} : OnRecoverySignalReturn(outcome)

SpecTP == InitTP /\ [][NextTP]_vars

\* the stop-loss distance of a built signal, times ten
SlDistanceX10(signal) == Abs(10 * signal.entry_price - signal.sl_price_x10)

\* C10: a TP-Continuation re-entry keeps the direction of its event and its
\* stop-loss distance is the original distance less 10% per chain level, the
\* reduction capped at 50%: level 2 gives 80% of the distance, level 5 and
\* above exactly half of it, on the loss side of the entry price.
TpContinuationReducesSl ==
    (tp_signal # NoSignal /\ tp_event.reentry_type = "tp_continuation") =>
        LET lvl == tp_event.chain_level
            original == Abs(tp_event.entry_price - tp_event.sl_price)
        IN  /\ tp_signal.direction = tp_event.direction
            /\ lvl < 5 => SlDistanceX10(tp_signal) = original * (10 - lvl)
            /\ lvl = 2 => SlDistanceX10(tp_signal) = original * 8
            /\ lvl >= 5 => 2 * SlDistanceX10(tp_signal) = original * 10
            /\ Upper(tp_event.direction) = "BUY"
                   => tp_signal.sl_price_x10 <= 10 * tp_signal.entry_price
            /\ Upper(tp_event.direction) # "BUY"
                   => tp_signal.sl_price_x10 >= 10 * tp_signal.entry_price

\* A TP-Continuation signal was built above the level where the cap applies.
TpSignalBuiltAtCap ==
    /\ tp_signal # NoSignal
    /\ tp_event.reentry_type = "tp_continuation"
    /\ tp_event.chain_level > 5
    /\ tp_event.sl_price # tp_event.entry_price

(***************************************************************************)
(* SpecRoute: routing decisions under every routing configuration.         *)
(***************************************************************************)
Routes == {"combinedlogic-1", "combinedlogic-2", "combinedlogic-3"}

\* the alerts that are routed
RouteAlerts ==
    [signal_type : {"Golden_Pocket_Flip", "Momentum_Breakout", "Screener_Full_Bullish"},
     tf : {"15", "240"}]

\* the dicts with keys among keys and values among values
DictsOver(keys, values) == UNION {[D -> values] : D \in SUBSET keys}

\* logic_multipliers as the shipped table has them (menu_manager.py 338-340)
StaticMultipliers ==
    [r \in Routes |-> CASE r = "combinedlogic-1" -> 1250
                        [] r = "combinedlogic-2" -> 1000
                        [] r = "combinedlogic-3" -> 625]

RoutingConfigs ==
    [signal_overrides : DictsOver({"Golden_Pocket_Flip", "Momentum_Breakout"},
                                  {"combinedlogic-1"}),
     timeframe_routing : DictsOver({"15", "240"}, {"combinedlogic-1"}),
     default_logic : {"absent", "combinedlogic-1"},
     logic_multipliers : {EmptyDict, StaticMultipliers}]

InitRoute ==
    /\ PluginInit
    /\ cfg = AllEnabled
    /\ counting = FALSE
    /\ RiskInitServicesUp /\ EntryInitQuiet /\ TpInitQuiet
    /\ DualInitQuiet /\ SessionInitQuiet /\ AuxInitQuiet
    /\ escaped = FALSE
    /\ plugin_routing \in RoutingConfigs
    /\ route_result = NoResult
    /\ routed = [a \in RouteAlerts |-> NoResult]

\* process_entry_signal's routing step: logic_route = _route_to_logic(alert),
\* logic_multiplier = _get_logic_multiplier(logic_route)
Route(alert) ==
    /\ IF routed[alert] = NoResult THEN TRUE ELSE routed[alert].times < MaxRoutings
    /\ LET logic_route == _route_to_logic(alert)
           lot_multiplier == _get_logic_multiplier(logic_route)
       IN  /\ route_result' = [alert |-> alert, logic_route |-> logic_route,
                               lot_multiplier |-> lot_multiplier]
           /\ routed' = [routed EXCEPT ![alert] =
                            IF @ = NoResult
                            THEN [logic_route |-> logic_route,
                                  lot_multiplier |-> lot_multiplier, times |-> 1,
                                  daily_loss |-> daily_loss,
                                  dual_order_service |-> dual_order_service]
                            ELSE [@ EXCEPT !.times = @ + 1]]
    /\ UNCHANGED <<plugin_routing, reentryVars, riskVars, entryVars, tpVars, dualVars,
                   sessionVars, escaped, auxVars>>

NextRoute == \E alert \in RouteAlerts : Route(alert)

SpecRoute == InitRoute /\ [][NextRoute]_vars

\* The routing rules of specification 4.3 in their priority order, each with
\* whether it matches the alert and the route it gives.
RoutingRules(alert) ==
    LET rc == plugin_routing IN
    << [matches |-> alert.signal_type \in DOMAIN rc.signal_overrides,
        route   |-> IF alert.signal_type \in DOMAIN rc.signal_overrides
                    THEN rc.signal_overrides[alert.signal_type] ELSE "none"],
       [matches |-> \/ alert.signal_type \in {"Screener_Full_Bullish",
                                              "Screener_Full_Bearish"}
                    \/ (alert.signal_type = "Golden_Pocket_Flip"
                        /\ alert.tf \in {"60", "240"}),
        route   |-> "combinedlogic-3"],
       [matches |-> alert.tf \in DOMAIN rc.timeframe_routing,
        route   |-> IF alert.tf \in DOMAIN rc.timeframe_routing
                    THEN rc.timeframe_routing[alert.tf] ELSE "none"],
       [matches |-> TRUE,
        route   |-> IF rc.default_logic = "absent" THEN "combinedlogic-2"
                    ELSE rc.default_logic] >>

FirstMatch(rules) ==
    CHOOSE i \in 1..Len(rules) :
        rules[i].matches /\ \A j \in 1..(i - 1) : ~rules[j].matches

\* C13: the route is that of the first rule that matches, in the order
\* override table, structural rules, timeframe table, default.
FirstMatchingRuleWins ==
    route_result # NoResult =>
        LET rules == RoutingRules(route_result.alert)
        IN  route_result.logic_route = rules[FirstMatch(rules)].route

\* A structural rule decided a route although the timeframe table and the
\* default name another route.
StructuralRuleBeatsTimeframeTable ==
    /\ route_result # NoResult
    /\ LET rules == RoutingRules(route_result.alert) IN
       /\ FirstMatch(rules) = 2
       /\ rules[3].matches /\ rules[3].route # rules[2].route
       /\ rules[4].route # rules[2].route
       /\ route_result.logic_route = "combinedlogic-3"

\* C14: a Golden_Pocket_Flip signal on timeframe 240 is routed to the
\* conservative route with lot multiplier 0.625.
GoldenPocketFlip240Conservative ==
    (/\ route_result # NoResult
     /\ route_result.alert.signal_type = "Golden_Pocket_Flip"
     /\ route_result.alert.tf = "240"
     /\ route_result.alert.signal_type \notin DOMAIN plugin_routing.signal_overrides)
        => /\ route_result.logic_route = "combinedlogic-3"
           /\ route_result.lot_multiplier = 625

(***************************************************************************)
(* SpecReroute: alerts routed again and again while the plugin and the     *)
(* risk state change between the routings: the dual-order service is       *)
(* injected and losing trades are recorded.                                *)
(***************************************************************************)
RerouteAlerts == {alert \in RouteAlerts : alert.tf = "240"}

InitReroute ==
    /\ InitRoute
    /\ plugin_routing.logic_multipliers = StaticMultipliers

NextReroute ==
    \/ \E alert \in RerouteAlerts : Route(alert)
    \/ SetDualOrderService
    \/ RecordTradeResult(1)

SpecReroute == InitReroute /\ [][NextReroute]_vars

TimePoints == {<<0, 0>>, <<3, 30>>, <<22, 30>>}
QueryTimes == TimePoints \cup {<<3, 29>>, <<13, 30>>, <<23, 59>>}
QuerySymbols == {"EURUSD", "USDJPY"}

SessionIdOf(i) ==
    CASE i = 1 -> "s1"
      [] i = 2 -> "s2"
      [] i = 3 -> "s3"
      [] OTHER -> "s4"

SessionWindows ==
    [start_time : {<<0, 0>>, <<22, 30>>}, end_time : {<<3, 30>>, <<22, 30>>},
     allowed_symbols : {{}, {"EURUSD"}}]

\* the sessions dict made of the windows w[1], w[2], ...
SessionsOf(w) ==
    [i \in 1..NSessions |->
        [id |-> SessionIdOf(i), start_time |-> w[i].start_time,
         end_time |-> w[i].end_time, allowed_symbols |-> w[i].allowed_symbols]]

SessionConfigs ==
    {[master_switch |-> m, sessions |-> SessionsOf(w)] :
        m \in BOOLEAN, w \in [1..NSessions -> SessionWindows]}
    \cup {DefaultSessionConfig}

InitSession ==
    /\ PluginInit
    /\ cfg = AllEnabled
    /\ counting = FALSE
    /\ RiskInitServicesUp /\ EntryInitQuiet /\ TpInitQuiet
    /\ DualInitQuiet /\ RouteInitQuiet /\ AuxInitQuiet
    /\ escaped = FALSE
    /\ session_config \in SessionConfigs
    /\ session_result = NoResult
    /\ session_edits = 0

SessionFrame ==
    UNCHANGED <<reentryVars, riskVars, entryVars, tpVars, dualVars, routeVars, escaped,
                auxVars>>

\* get_current_session(current_time)
GetCurrentSession(current_time) ==
    /\ session_result' = [op |-> "get_current_session", time |-> current_time,
                          session |-> get_current_session(session_config, current_time)]
    /\ UNCHANGED <<session_config, session_edits>>
    /\ SessionFrame

\* check_trade_allowed(symbol, current_time)
CheckTradeAllowed(symbol, current_time) ==
    /\ LET answer == check_trade_allowed(session_config, symbol, current_time) IN
       session_result' = [op |-> "check_trade_allowed", symbol |-> symbol,
                          time |-> current_time, allowed |-> answer.allowed,
                          reason |-> answer.reason]
    /\ UNCHANGED <<session_config, session_edits>>
    /\ SessionFrame

\* toggle_master_switch: flips the switch, saves the configuration and
\* returns the new state.  save_session_config logs and re-raises a failure
\* of the write (saved = FALSE): the exception leaves toggle_master_switch
\* with the switch flipped in memory and no state returned.
ToggleMasterSwitch(saved) ==
    /\ session_config' = [session_config EXCEPT !.master_switch = ~@]
    /\ session_result' = IF saved
                         THEN [op |-> "toggle_master_switch", raised |-> "none",
                               new_state |-> ~session_config.master_switch]
                         ELSE [op |-> "toggle_master_switch", raised |-> "save"]
    /\ UNCHANGED session_edits
    /\ SessionFrame

\* the sessions, fields and steps the adjusting calls are made with
EditSessionIds == {"s1", "asian", "s9"}
EditFields == {"start_time", "end_time"}
EditDeltas == {30, -30}

\* adjust_session_time(session_id, field, delta_minutes): ValueError for an
\* unknown session; otherwise the time is moved, then the configuration saved
AdjustSessionTime(session_id, field, delta_minutes, saved) ==
    /\ session_edits < MaxEdits
    /\ IF ~HasSession(session_config, session_id)
       THEN /\ UNCHANGED <<session_config, session_edits>>
            /\ session_result' = [op |-> "adjust_session_time", raised |-> "ValueError"]
       ELSE /\ session_config' =
                   adjust_session_time(session_config, session_id, field, delta_minutes)
            /\ session_edits' = session_edits + 1
            /\ session_result' = [op |-> "adjust_session_time",
                                  raised |-> IF saved THEN "none" ELSE "save"]
    /\ SessionFrame

\* toggle_symbol(session_id, symbol): ValueError for an unknown session;
\* otherwise the symbol is toggled, then the configuration saved
ToggleSymbol(session_id, symbol, saved) ==
    /\ session_edits < MaxEdits
    /\ IF ~HasSession(session_config, session_id)
       THEN /\ UNCHANGED <<session_config, session_edits>>
            /\ session_result' = [op |-> "toggle_symbol", raised |-> "ValueError"]
       ELSE /\ session_config' = toggle_symbol(session_config, session_id, symbol)
            /\ session_edits' = session_edits + 1
            /\ session_result' = [op |-> "toggle_symbol",
                                  raised |-> IF saved THEN "none" ELSE "save"]
    /\ SessionFrame

NextSession ==
    \/ \E t \in QueryTimes : GetCurrentSession(t)
    \/ \E sym \in QuerySymbols, t \in QueryTimes : CheckTradeAllowed(sym, t)
    \/ \E saved \in BOOLEAN : ToggleMasterSwitch(saved)
    \/ \E session_id \in EditSessionIds, field \in EditFields, delta \in EditDeltas,
          saved \in BOOLEAN : AdjustSessionTime(session_id, field, delta, saved)
    \/ \E session_id \in EditSessionIds, saved \in BOOLEAN :
           ToggleSymbol(session_id, "EURUSD", saved)

SpecSession == InitSession /\ [][NextSession]_vars

\* the minutes of the day in the half-open window [start, end) of a session,
\* a window whose start is later than its end running over midnight
WindowMinutes(session_data) ==
    LET start_mins == time_to_minutes(session_data.start_time)
        end_mins   == time_to_minutes(session_data.end_time)
    IN  IF start_mins > end_mins
        THEN (start_mins..1439) \cup (0..(end_mins - 1))
        ELSE start_mins..(end_mins - 1)

\* the sessions (by position) whose window contains the time
SessionsContaining(config, time) ==
    {i \in 1..Len(config.sessions) :
        time_to_minutes(time) \in WindowMinutes(config.sessions[i])}

\* C16: the active session is "none" when no window contains the time, and
\* otherwise a session whose window contains it and whose start is the latest
\* among those that do.
ActiveSessionIsLatestStart ==
    (session_result # NoResult /\ session_result.op = "get_current_session") =>
        LET sessions == session_config.sessions
            containing == SessionsContaining(session_config, session_result.time)
        IN  IF containing = {}
            THEN session_result.session = "none"
            ELSE \E i \in containing :
                    /\ sessions[i].id = session_result.session
                    /\ \A j \in containing :
                          time_to_minutes(sessions[j].start_time)
                              <= time_to_minutes(sessions[i].start_time)

\* Two windows contain the time, the first-listed one running over
\* midnight and having the later start time, and that one is the active
\* session.
WrappingWindowWinsOverlap ==
    /\ session_result # NoResult /\ session_result.op = "get_current_session"
    /\ session_config # DefaultSessionConfig
    /\ LET sessions == session_config.sessions IN
       /\ SessionsContaining(session_config, session_result.time) = {1, 2}
       /\ time_to_minutes(sessions[1].start_time) > time_to_minutes(sessions[1].end_time)
       /\ time_to_minutes(sessions[1].start_time) > time_to_minutes(sessions[2].start_time)
       /\ session_result.session = sessions[1].id

\* C17: with the master switch on, the trade is allowed exactly when a
\* session is active at the time and the symbol is in its allowed_symbols.
MasterOnGate ==
    (/\ session_result # NoResult /\ session_result.op = "check_trade_allowed"
     /\ session_config.master_switch) =>
        LET active == get_current_session(session_config, session_result.time) IN
        session_result.allowed =
            (/\ active # "none"
             /\ session_result.symbol \in SessionData(session_config, active).allowed_symbols)

\* With the switch on, a symbol was refused during an active session that
\* does not list it.
SymbolRefusedInSession ==
    /\ session_result # NoResult /\ session_result.op = "check_trade_allowed"
    /\ session_config.master_switch
    /\ get_current_session(session_config, session_result.time) # "none"
    /\ ~session_result.allowed

\* C18: with the master switch off, the trade is allowed for every symbol at
\* every time.
MasterOffAllowsAll ==
    (/\ session_result # NoResult /\ session_result.op = "check_trade_allowed"
     /\ ~session_config.master_switch) =>
        session_result.allowed = TRUE

\* With the switch off, a trade was allowed at a time when no session is
\* active.
AllowedWithoutSession ==
    /\ session_result # NoResult /\ session_result.op = "check_trade_allowed"
    /\ ~session_config.master_switch
    /\ get_current_session(session_config, session_result.time) = "none"
    /\ session_result.allowed

(***************************************************************************)
(* SpecRecovery: the re-entry system with the plugin in either mode,       *)
(* live or shadow.                                                         *)
(***************************************************************************)
InitRecovery ==
    /\ PluginInit
    /\ cfg = AllEnabled
    /\ counting = FALSE
    /\ RiskInitServicesUp /\ TpInitQuiet /\ ExtInitQuiet
    /\ shadow_mode \in BOOLEAN
    /\ close_api = FALSE
    /\ etasks = [k \in ETaskIds |-> Idle]
    /\ port_req = NoRequest
    /\ entry_result = NoResult

SpecRecovery == InitRecovery /\ [][Next]_vars

\* C19: a recovery order goes to the order manager through the placement
\* call of an ordinary entry, with the route and the lot multiplier of the
\* routing step, and like an entry is not placed in shadow mode.
RecoveryThroughEntryPath ==
    last_recovery # NoSignal =>
        /\ last_recovery.call.method = PlaceDualMethod
        /\ {"logic_route", "logic_multiplier"} \subseteq DOMAIN last_recovery.call
        /\ ~shadow_mode

(***************************************************************************)
(* SpecFail: the re-entry system when the start of a monitor can fail      *)
(* with an exception.                                                      *)
(***************************************************************************)
NextFail ==
    \/ Next
    \/ \E k \in TaskIds : ServiceStartRaises(k)

SpecFail == Init /\ [][NextFail]_vars

\* C20: no failure while handling an event leaves the handler as an exception.
NoExceptionEscapes == ~escaped

(***************************************************************************)
(* SpecClose: orders placed by create_dual_orders and the close events of  *)
(* on_order_a_closed, which hand SL closes to on_sl_hit.                   *)
(***************************************************************************)
NextClose ==
    \/ SetReentryService
    \/ SetDualOrderService
    \/ \E t \in Trades, a_ok, b_ok \in BOOLEAN : CreateDualOrders(t, a_ok, b_ok)
    \/ \E t \in Trades, i \in 1..MaxCreates : CreateDualOrdersReturn(t, i)
    \/ \E t \in Trades : OnOrderBClosed(t, "PROFIT_BOOKED")
    \/ \E k \in TaskIds, t \in Trades, r \in CloseReasons : OnOrderAClosed(k, t, r)
    \/ \E k \in TaskIds, accept \in BOOLEAN : ServiceStart(k, accept)
    \/ \E k \in TaskIds : OnSlHitEnd(k)
    \/ \E t \in Trades, i \in 1..NTasks, ok \in BOOLEAN : MonitorRecover(t, i, ok)
    \/ \E t \in Trades, i \in 1..NTasks : MonitorExpire(t, i)

SpecClose == Init /\ [][NextClose]_vars

\* C3 as claimed: once two close events for an order id have been handled,
\* exactly one ReentryEvent has been created for it.
TwoClosesExactlyOneEvent ==
    \A t \in Trades : Len(close_log[t]) >= 2 => events_created[t] = 1

\* The re-entry type the close handling is to emit for a close reason
\* (specification 4.4, OnClose).
ExpectedReentryType(reason) ==
    CASE reason = "SL_HIT" -> "sl_hunt"
      [] reason = "TP_HIT" -> "tp_continuation"
      [] OTHER             -> "exit_continuation"

\* C12: the close of a tracked trade emits one re-entry event whose type is
\* decided by the close reason: SL_HUNT for an SL close, TP_CONTINUATION for a
\* TP close, EXIT_CONTINUATION for a MANUAL close.
CloseReasonDecidesEvent ==
    \A t \in Trades :
        close_log[t] # <<>> =>
            /\ events_created[t] = 1
            /\ ClosedOrderEvent(t).reentry_type = ExpectedReentryType(close_log[t][1])

\* Dual placement and the close handling of both legs: the invocations of
\* create_dual_orders suspended at the service call, interleaved with the
\* closes of the legs the service has placed (leg A closing at its TP, which
\* starts no re-entry; SL closes and their re-entries are in SpecClose).
NextDual ==
    \/ SetDualOrderService
    \/ \E t \in Trades, a_ok, b_ok \in BOOLEAN : CreateDualOrders(t, a_ok, b_ok)
    \/ \E t \in Trades, i \in 1..MaxCreates : CreateDualOrdersReturn(t, i)
    \/ \E t \in Trades : OnOrderBClosed(t, "PROFIT_BOOKED")
    \/ \E t \in Trades : OnOrderAClosed(1, t, "TP_HIT")

SpecDual == Init /\ [][NextDual]_vars

\* C11: when create_dual_orders resumes with the result of its service call,
\* every leg with an id becomes an active order (the other leg failing does
\* not remove it), a leg without an id adds nothing, and no further service
\* call is made for it; a tracked order leaves the active orders only in a step
\* that handles a close event for it; and the service is called once per
\* invocation of create_dual_orders.
OneLegFailureKeepsOtherLeg ==
    /\ [][\A t \in Trades :
             Len(dual_pending'[t]) < Len(dual_pending[t]) =>
                 /\ dual_results'[t] \in {dual_pending[t][i] : i \in 1..Len(dual_pending[t])}
                 /\ active_orders' = active_orders \cup LegIds(dual_results'[t])
                 /\ service_calls' = service_calls]_vars
    /\ [][\A o \in active_orders :
             o \notin active_orders' => Len(close_log'[o]) = Len(close_log[o]) + 1]_vars
    /\ [][\A t \in Trades :
             service_calls'[t] # service_calls[t] =>
                 /\ service_calls'[t] = service_calls[t] + 1
                 /\ Len(dual_pending'[t]) = Len(dual_pending[t]) + 1]_vars

\* Exactly one leg of a dual placement succeeded, in either way, and the
\* placed leg is tracked while the failed one is not.
OneLegPlacedAndTracked ==
    /\ dual_results["t1"] # NoResult /\ dual_results["t2"] # NoResult
    /\ dual_results["t1"].order_a_id # "None" /\ dual_results["t1"].order_b_id = "None"
    /\ dual_results["t2"].order_a_id = "None" /\ dual_results["t2"].order_b_id # "None"
    /\ dual_pending["t1"] = <<>> /\ dual_pending["t2"] = <<>>
    /\ active_orders = {OrderA("t1"), OrderB("t2")}

(***************************************************************************)
(* SpecLimit: SL-hunt recoveries and their monitors while trade results    *)
(* are recorded and the daily loss grows to the daily limit.               *)
(***************************************************************************)
NextLimit ==
    \/ SetReentryService
    \/ \E k \in TaskIds, t \in Chains : OnSlHit(k, t)
    \/ \E k \in TaskIds, accept \in BOOLEAN : ServiceStart(k, accept)
    \/ \E k \in TaskIds : OnSlHitEnd(k)
    \/ \E t \in Chains, i \in 1..NTasks, ok \in BOOLEAN : MonitorRecover(t, i, ok)
    \/ \E t \in Chains, i \in 1..NTasks : MonitorExpire(t, i)
    \/ RecordTradeResult(1)

SpecLimit == Init /\ [][NextLimit]_vars

ActiveMonitors == {t \in Trades : monitors[t] # <<>>}

\* C9: the step in which the daily loss changes (and so the step in which it
\* reaches the daily limit) changes no monitor and no handler in flight.
LimitLeavesMonitorsAlone ==
    [][daily_loss' # daily_loss => (monitors' = monitors /\ tasks' = tasks)]_vars

\* The daily limit has been reached while a monitor is running.
LimitReachedWithMonitor ==
    /\ LimitReached
    /\ ActiveMonitors # {}

(***************************************************************************)
(* SpecLot: get_smart_lot_size while the daily loss budget is consumed.    *)
(* Lots are integers in units of 0.0001 lot, so 75% and 50% of the base    *)
(* lots of _get_base_lot are exact.                                        *)
(***************************************************************************)
\* _get_base_lot: 0.01, 0.02, 0.03 for LOGIC1..3
BaseLots == {100, 200, 300}

\* a smart lot that rewards an untouched budget with a larger lot
_apply_smart_lot_boost(base_lot, loss) ==
    IF 2 * (daily_limit - loss) > daily_limit THEN (base_lot * 125) \div 100
    ELSE IF 4 * (daily_limit - loss) >= daily_limit THEN (base_lot * 75) \div 100
    ELSE (base_lot * 50) \div 100

\* DualOrderService._apply_smart_lot (specification 4.2, SmartLot): 100% of
\* the base lot while more than half of the daily budget remains, 75% between
\* a quarter and a half, 50% below a quarter.
_apply_smart_lot(base_lot, loss) ==
    IF 2 * (daily_limit - loss) > daily_limit THEN base_lot
    ELSE IF 4 * (daily_limit - loss) >= daily_limit THEN (base_lot * 75) \div 100
    ELSE (base_lot * 50) \div 100

\* get_smart_lot_size(base_lot)
get_smart_lot_size(base_lot) ==
    IF ~dual_order_service THEN base_lot
    ELSE _apply_smart_lot(base_lot, daily_loss)

GetSmartLotSize(base_lot) ==
    /\ smart_lot' = [base_lot |-> base_lot, service |-> dual_order_service,
                     loss |-> daily_loss, lot |-> get_smart_lot_size(base_lot)]
    /\ last_recovery' = NoSignal
    /\ UNCHANGED <<reentry_service, cfg, chain_levels, active_orders, issued, tasks,
                   monitors, events_created, close_log, counting, reentries>>
    /\ UNCHANGED <<riskVars, entryVars, tpVars, dualVars, routeVars, sessionVars,
                   escaped, tsm, tsm_result, menu_config, menu_result, menu_edits, api_result,
                   api_call, registry, reg_result, ctx, ctx_result>>

NextLot ==
    \/ SetDualOrderService
    \/ \E loss \in 1..MaxLoss : RecordTradeResult(loss)
    \/ \E base_lot \in BaseLots : GetSmartLotSize(base_lot)

SpecLot == Init /\ [][NextLot]_vars

\* C21: whatever the base lot and however much of the daily budget is used,
\* the lot get_smart_lot_size returns is at most the base lot.
SmartLotNeverScalesUp ==
    smart_lot # NoResult => smart_lot.lot <= smart_lot.base_lot

\* the service was asked with the budget used up and returned a smaller lot
SmartLotReduced ==
    /\ smart_lot # NoResult
    /\ smart_lot.service
    /\ smart_lot.loss >= daily_limit
    /\ smart_lot.lot < smart_lot.base_lot

(***************************************************************************)
(* SpecTsm: sessions created, fed with trade results and closed.           *)
(***************************************************************************)
TsmFrame ==
    /\ UNCHANGED <<reentryVars, riskVars, entryVars, tpVars, dualVars, routeVars,
                   sessionVars, escaped, smart_lot, menu_config, menu_result, menu_edits,
                   api_result, api_call, registry, reg_result, ctx, ctx_result>>

\* create_session(symbol, direction, signal, logic); raises_at is the database
\* call that raises (1 create_session, 2 the metadata UPDATE), 0 for none.
TsmCreateSession(logic, raises_at) ==
    /\ tsm.created < MaxSessions
    /\ IF tsm.active_session_id # 0
       THEN /\ tsm_result' = [op |-> "create_session", was_active |-> tsm.active_session_id,
                              returned |-> tsm.active_session_id]
            /\ UNCHANGED tsm
       ELSE LET session_id == tsm.created + 1 IN
            IF raises_at = 1
            THEN /\ tsm_result' = [op |-> "create_session", was_active |-> 0, returned |-> 0]
                 /\ UNCHANGED tsm
            ELSE IF raises_at = 2
            THEN /\ tsm_result' = [op |-> "create_session", was_active |-> 0, returned |-> 0]
                 /\ tsm' = [tsm EXCEPT !.created = session_id,
                                       !.open = @ \cup {session_id}]
            ELSE /\ tsm_result' = [op |-> "create_session", was_active |-> 0,
                                   returned |-> session_id]
                 /\ tsm' = [active_session_id |-> session_id, created |-> session_id,
                            open |-> tsm.open \cup {session_id},
                            logic_stats |-> (logic :> ZeroStats), recorded |-> <<>>,
                            uncommitted |-> FALSE]
    /\ TsmFrame

\* the manager and database after close_session's database calls, of which
\* call raises_at raises (1 update_session_stats, 2 close_session,
\* 3 get_session_details), 0 for none
close_session(raises_at) ==
    IF tsm.active_session_id = 0 THEN tsm
    ELSE IF raises_at = 1 THEN tsm
    ELSE IF raises_at = 0
    THEN [tsm EXCEPT !.open = @ \ {tsm.active_session_id}, !.active_session_id = 0]
    ELSE IF raises_at = 2 THEN tsm
    ELSE [tsm EXCEPT !.open = @ \ {tsm.active_session_id}]

\* close_session(reason)
TsmCloseSession(raises_at) ==
    /\ tsm' = close_session(raises_at)
    /\ tsm_result' = [op |-> "close_session", was_active |-> tsm.active_session_id,
                      returned |-> IF tsm.active_session_id # 0 /\ raises_at = 0
                                   THEN tsm.active_session_id ELSE 0]
    /\ TsmFrame

\* update_logic_stats(trade); has_metadata: the SELECT finds the session's
\* metadata; raises_at is the database call that raises (1 the SELECT, 2 the
\* UPDATE, 3 the commit), 0 for none.  A session without metadata returns at
\* once.  The except clause only logs: when the commit raises, the UPDATE
\* already executed stays pending on the connection, the next SELECT of the
\* manager reads it back and the next commit that succeeds commits it.
TsmUpdateLogicStats(trade, has_metadata, raises_at) ==
    /\ Len(tsm.recorded) < MaxRecords
    /\ IF tsm.active_session_id = 0
       THEN UNCHANGED tsm
       ELSE IF raises_at = 1 THEN UNCHANGED tsm
       ELSE IF ~has_metadata THEN UNCHANGED tsm
       ELSE IF raises_at = 2 THEN UNCHANGED tsm
       ELSE LET stats == IF trade.logic_type \in DOMAIN tsm.logic_stats
                         THEN tsm.logic_stats[trade.logic_type] ELSE ZeroStats
            IN  tsm' = [tsm EXCEPT
                    !.logic_stats = (trade.logic_type :> updated_stats(stats, trade)) @@ @,
                    !.recorded = Append(@, trade),
                    !.uncommitted = (raises_at = 3)]
    /\ tsm_result' = [op |-> "update_logic_stats", was_active |-> tsm.active_session_id,
                      counted |-> tsm'.recorded # tsm.recorded,
                      committed |-> (tsm'.recorded # tsm.recorded /\ raises_at = 0),
                      returned |-> 0]
    /\ TsmFrame

\* check_session_end(open_trades): has_open says whether a trade of the
\* active session is still open, total_trades is the database's count for it.
\* raises_at 4 is db.get_active_session raising: the call is outside any try,
\* the exception leaves check_session_end.
TsmCheckSessionEnd(has_open, total_trades, raises_at) ==
    LET raised == tsm.active_session_id # 0 /\ raises_at = 4
        closes == /\ tsm.active_session_id # 0
                  /\ ~raised
                  /\ tsm.active_session_id \in tsm.open
                  /\ ~has_open
                  /\ total_trades > 0
    IN  /\ tsm' = IF closes THEN close_session(raises_at) ELSE tsm
        /\ tsm_result' = [op |-> "check_session_end", was_active |-> tsm.active_session_id,
                          closes |-> closes, raised |-> raised,
                          returned |-> IF closes /\ raises_at = 0
                                       THEN tsm.active_session_id ELSE 0]
        /\ TsmFrame

TsmLogics == {"combinedlogic-1", "combinedlogic-2"}

NextTsm ==
    \/ \E logic \in TsmLogics, raises_at \in 0..2 : TsmCreateSession(logic, raises_at)
    \/ \E raises_at \in 0..3 : TsmCloseSession(raises_at)
    \/ \E trade \in ClosedTrades, has_metadata \in BOOLEAN, raises_at \in 0..3 :
           TsmUpdateLogicStats(trade, has_metadata, raises_at)
    \/ \E has_open \in BOOLEAN, total_trades \in 0..1, raises_at \in 0..4 :
           TsmCheckSessionEnd(has_open, total_trades, raises_at)

SpecTsm == Init /\ [][NextTsm]_vars

\* C23: a closed trade handed to update_logic_stats more than once is counted
\* once: the statistics of its logic are those after its first recording.
SameTradeCountedOnce ==
    \A trade \in ClosedTrades :
        (\E i \in DOMAIN tsm.recorded : tsm.recorded[i] = trade) =>
            LET stats == tsm.logic_stats[trade.logic_type] IN
            /\ stats.trades = 1
            /\ stats.wins + stats.losses = 1
            /\ stats.pnl = trade.pnl

\* C28: create_session while a session is active returns the active id and
\* leaves it active, and after close_session, or after check_session_end
\* found the session finished and closed it, no session is active.
NoActiveSessionAfterClose ==
    /\ (tsm_result # NoResult /\ tsm_result.op = "create_session"
            /\ tsm_result.was_active # 0)
          => /\ tsm_result.returned = tsm_result.was_active
             /\ tsm.active_session_id = tsm_result.was_active
    /\ (tsm_result # NoResult /\ tsm_result.op = "close_session")
          => tsm.active_session_id = 0
    /\ (tsm_result # NoResult /\ tsm_result.op = "check_session_end"
            /\ tsm_result.closes)
          => tsm.active_session_id = 0

(***************************************************************************)
(* SpecMenu: the two menu handlers constructed with a configuration, given *)
(* a new one by set_config, and handed callbacks.                          *)
(***************************************************************************)
\* plugins offered by show_dual_order_menu / show_reentry_menu
MenuPlugins == {Joined(<<"v3", "logic1">>), Joined(<<"v6", "15m">>)}

\* DualOrderMenuHandler.ORDER_MODES: order_a, order_b, both
ORDER_MODES == {Joined(<<"order", "a">>), Joined(<<"order", "b">>), <<"both">>}

\* the callback data show_mode_selection puts on the button of a mode:
\* f"dual_set_mode_{plugin}_{mode}"
ModeSelectionCallback(plugin, mode) ==
    Prefix(<<"dual", "set", "mode">>) \o plugin \o <<"_">> \o mode

\* configurations handed to the constructors and to set_config: an empty one,
\* one whose sections have no "plugins", and one with the plugin entries
\* _get_dual_order_config and _get_reentry_config describe
GivenConfigs ==
    {MenuConfigInit,
     [dual    |-> [present |-> TRUE, enabled |-> TRUE],
      reentry |-> [present |-> TRUE, enabled |-> TRUE]],
     [dual    |-> [present |-> TRUE, enabled |-> TRUE,
                   plugins |-> (Joined(<<"v3", "logic1">>) :>
                       [enabled |-> TRUE, mode |-> <<"both">>,
                        order_a |-> [lot_multiplier |-> 1000, tp_pips |-> 20,
                                     sl_pips |-> 15]])],
      reentry |-> [present |-> TRUE, enabled |-> TRUE,
                   plugins |-> (Joined(<<"v3", "logic1">>) :>
                       [enabled |-> TRUE,
                        tp_continuation |-> [enabled |-> TRUE, max_levels |-> 3,
                                             cooldown_seconds |-> 60],
                        sl_hunt_recovery |-> [enabled |-> TRUE, max_levels |-> 2,
                                              cooldown_seconds |-> 120]])]]}

\* callback data on the keyboards the dual-order handler builds, and data in
\* which the toggle prefix occurs a second time
DualCallbacks ==
    {Joined(<<"menu", "dual", "order">>), Joined(<<"dual", "toggle", "system">>)}
    \cup {Prefix(<<"dual", "config">>) \o p : p \in MenuPlugins}
    \cup {Prefix(<<"dual", "mode">>) \o p : p \in MenuPlugins}
    \cup {Prefix(<<"dual", "order", "a">>) \o p : p \in MenuPlugins}
    \cup {Prefix(<<"dual", "toggle">>) \o Joined(<<"v6", "15m">>),
          Prefix(<<"dual", "toggle">>) \o <<"x">> \o Prefix(<<"dual", "toggle">>) \o <<"y">>}
    \cup {ModeSelectionCallback(Joined(<<"v3", "logic1">>), mode) : mode \in ORDER_MODES}

\* callback data on the keyboards the re-entry handler builds, and data in
\* which a type prefix occurs a second time
ReentryCallbacks ==
    {Joined(<<"menu", "reentry">>), Joined(<<"reentry", "toggle", "system">>)}
    \cup {Prefix(<<"reentry", "config">>) \o p : p \in MenuPlugins}
    \cup {Joined(<<"reentry", "tp", "v3", "logic1">>),
          Joined(<<"reentry", "sl", "v3", "logic1">>),
          Joined(<<"reentry", "exit", "v3", "logic1">>),
          Prefix(<<"reentry", "tp">>) \o <<"x">> \o Prefix(<<"reentry", "tp">>) \o <<"y">>}

\* callback data of other menus, and data that only resembles a handler's own
OtherCallbacks ==
    {Joined(<<"invalid", "callback">>), Joined(<<"menu", "main">>),
     Joined(<<"dual", "config">>), Joined(<<"dual", "set", "mode", "both">>),
     Prefix(<<"menu", "dual", "order">>), Joined(<<"reentry", "configs", "v3">>),
     Joined(<<"reentry", "tp">>), Joined(<<"menu", "reentry", "x">>),
     Joined(<<"menu", "dual", "order">>), Joined(<<"menu", "reentry">>)}

MenuFrame ==
    /\ UNCHANGED <<reentryVars, riskVars, entryVars, tpVars, dualVars, routeVars,
                   sessionVars, escaped, smart_lot, tsm, tsm_result, api_result,
                   api_call, registry, reg_result, ctx, ctx_result>>

\* the count of the steps that changed a handler's configuration
MenuEdited(config) ==
    /\ menu_edits' = IF config # menu_config THEN menu_edits + 1 ELSE menu_edits
    /\ menu_edits' <= MaxMenuEdits

\* DualOrderMenuHandler(bot, config) and ReentryMenuHandler(bot, config)
InitMenu ==
    /\ PluginInit
    /\ cfg = AllEnabled
    /\ counting = FALSE
    /\ RiskInitServicesUp /\ EntryInitQuiet /\ TpInitQuiet
    /\ DualInitQuiet /\ RouteInitQuiet /\ SessionInitQuiet
    /\ escaped = FALSE
    /\ AuxInitRest
    /\ menu_config \in GivenConfigs /\ menu_result = NoResult /\ menu_edits = 0

\* DualOrderMenuHandler.set_config(config)
DualSetConfig(config) ==
    /\ menu_config' = [menu_config EXCEPT !.dual = config.dual]
    /\ MenuEdited(menu_config')
    /\ menu_result' = NoResult
    /\ MenuFrame

\* ReentryMenuHandler.set_config(config)
ReentrySetConfig(config) ==
    /\ menu_config' = [menu_config EXCEPT !.reentry = config.reentry]
    /\ MenuEdited(menu_config')
    /\ menu_result' = NoResult
    /\ MenuFrame

DualHandleCallback(callback_data) ==
    LET r == dual_handle_callback(menu_config.dual, callback_data) IN
    /\ menu_config' = [menu_config EXCEPT !.dual = r.section]
    /\ MenuEdited(menu_config')
    /\ menu_result' = [handler |-> "dual", callback_data |-> callback_data,
                       returned |-> r.returned, before |-> menu_config.dual]
    /\ MenuFrame

ReentryHandleCallback(callback_data) ==
    LET r == reentry_handle_callback(menu_config.reentry, callback_data) IN
    /\ menu_config' = [menu_config EXCEPT !.reentry = r.section]
    /\ MenuEdited(menu_config')
    /\ menu_result' = [handler |-> "reentry", callback_data |-> callback_data,
                       returned |-> r.returned, before |-> menu_config.reentry]
    /\ MenuFrame

NextMenu ==
    \/ \E config \in GivenConfigs : DualSetConfig(config)
    \/ \E config \in GivenConfigs : ReentrySetConfig(config)
    \/ \E callback_data \in DualCallbacks \cup OtherCallbacks :
           DualHandleCallback(callback_data)
    \/ \E callback_data \in ReentryCallbacks \cup OtherCallbacks :
           ReentryHandleCallback(callback_data)

SpecMenu == InitMenu /\ [][NextMenu]_vars

\* a handler's own menu id and its prefixes
OwnMenuId(handler) ==
    IF handler = "dual" THEN Joined(<<"menu", "dual", "order">>)
    ELSE Joined(<<"menu", "reentry">>)

OwnPrefixes(handler) ==
    IF handler = "dual"
    THEN {Prefix(<<"dual", "config">>), Prefix(<<"dual", "mode">>),
          Prefix(<<"dual", "toggle">>), Prefix(<<"dual", "set", "mode">>)}
    ELSE {Prefix(<<"reentry", "config">>), Prefix(<<"reentry", "toggle">>),
          Prefix(<<"reentry", "tp">>), Prefix(<<"reentry", "sl">>),
          Prefix(<<"reentry", "exit">>)}

\* C24: handle_callback of either handler returns True exactly when the
\* callback data is the handler's menu id or starts with one of its prefixes.
OwnCallbacksAccepted ==
    menu_result # NoResult =>
        menu_result.returned =
            (\/ menu_result.callback_data = OwnMenuId(menu_result.handler)
             \/ \E prefix \in OwnPrefixes(menu_result.handler) :
                    StartsWith(menu_result.callback_data, prefix))

\* the dual handler accepted data that starts with dual_set_mode_ although it
\* names no plugin and mode, and the re-entry handler has work behind it
PrefixAcceptedWithoutEffect ==
    /\ menu_result # NoResult
    /\ menu_result.handler = "dual"
    /\ menu_result.callback_data = Joined(<<"dual", "set", "mode", "both">>)
    /\ menu_result.returned
    /\ menu_config.dual = menu_result.before
    /\ menu_config.reentry.present

\* the plugins dict of a section, empty when the section is not there
PluginsOf(section) ==
    IF section.present /\ "plugins" \in DOMAIN section THEN section.plugins
    ELSE EmptyDict

\* C30: the callback show_mode_selection builds for plugin p and mode m sets
\* p's mode to m and leaves every other plugin's configuration as it was.
ModeSelectionSetsMode ==
    \A p \in MenuPlugins, mode \in ORDER_MODES :
        (/\ menu_result # NoResult
         /\ menu_result.handler = "dual"
         /\ menu_result.callback_data = ModeSelectionCallback(p, mode))
        => LET before == PluginsOf(menu_result.before)
               after  == PluginsOf(menu_config.dual)
           IN  /\ p \in DOMAIN after
               /\ "mode" \in DOMAIN after[p]
               /\ after[p].mode = mode
               /\ \A q \in DOMAIN after \ {p} :
                      q \in DOMAIN before /\ after[q] = before[q]

(***************************************************************************)
(* SpecPlace: the placement methods of ServiceAPI while the engine pauses  *)
(* and resumes trading, with and without an order service.                 *)
(***************************************************************************)
PlacementMethods ==
    {"place_order", "place_dual_orders_v3", "place_dual_orders_v6",
     "place_single_order_a", "place_single_order_b"}

\* where a placement method sends the order once it has tested the engine's
\* flag: to the MT5 client, to the order service, or nowhere
placement_target(method) ==
    IF ~trading_enabled THEN "none"
    ELSE IF method = "place_order" THEN "mt5"
    ELSE IF order_service THEN "order_service"
    ELSE IF method \in {"place_single_order_a", "place_single_order_b"}
    THEN "mt5"
    ELSE "none"

PlaceFrame ==
    /\ entry_result' = NoResult
    /\ last_recovery' = NoSignal
    /\ UNCHANGED <<reentry_service, cfg, chain_levels, active_orders, issued, tasks,
                   monitors, events_created, close_log, counting, reentries>>
    /\ UNCHANGED <<riskVars, shadow_mode, close_api, etasks, tpVars>>
    /\ UNCHANGED <<dualVars, routeVars, sessionVars, escaped, smart_lot, tsm, tsm_result,
                   menu_config, menu_result, menu_edits, registry, reg_result, ctx, ctx_result>>

\* a placement method is called.  It tests trading_enabled and returns empty
\* when trading is paused; place_order, and the single-order methods without
\* an order service, call the MT5 client and return its answer (accepted says
\* whether that is a ticket); with an order service the other methods hand
\* the request to it and await it.
ApiPlace(method, accepted) ==
    LET target == placement_target(method) IN
    /\ IF target = "order_service"
       THEN /\ api_call = Idle
            /\ api_call' = [pc |-> "forwarded", method |-> method]
            /\ port_req' = NoRequest
            /\ UNCHANGED api_result
       ELSE /\ api_result' = [method |-> method, trading_enabled |-> trading_enabled,
                              target |-> target,
                              returned |-> IF target = "mt5" /\ accepted THEN "ticket"
                                           ELSE "empty"]
            /\ port_req' = IF target = "none" THEN NoRequest
                           ELSE [op |-> "place", task |-> 0, method |-> method]
            /\ UNCHANGED api_call
    /\ PlaceFrame

\* the order service submits the awaited request through the execution port
\* (specification section 4.4, PlaceDual); accepted says whether the broker
\* answers with a ticket
OrderServiceSends(accepted) ==
    /\ api_call.pc = "forwarded"
    /\ api_call' = [pc |-> "sent", method |-> api_call.method,
                    returned |-> IF accepted THEN "ticket" ELSE "empty"]
    /\ port_req' = [op |-> "place", task |-> 0, method |-> api_call.method]
    /\ UNCHANGED api_result
    /\ PlaceFrame

\* the awaited call returns and the placement method returns what it gave;
\* trading_enabled in the result is the engine's flag at this return
ApiPlaceReturn ==
    /\ api_call.pc = "sent"
    /\ api_result' = [method |-> api_call.method, trading_enabled |-> trading_enabled,
                      target |-> "order_service", returned |-> api_call.returned]
    /\ api_call' = Idle
    /\ port_req' = NoRequest
    /\ PlaceFrame

\* the engine pauses or resumes trading
SetTradingEnabled(enabled) ==
    /\ trading_enabled # enabled
    /\ trading_enabled' = enabled
    /\ port_req' = NoRequest /\ entry_result' = NoResult
    /\ UNCHANGED <<order_service, risk_service, daily_loss, limit_result, limit_call>>
    /\ UNCHANGED <<reentryVars, shadow_mode, close_api, etasks, tpVars, extVars>>

NextPlace ==
    \/ \E method \in PlacementMethods, accepted \in BOOLEAN : ApiPlace(method, accepted)
    \/ \E accepted \in BOOLEAN : OrderServiceSends(accepted)
    \/ ApiPlaceReturn
    \/ \E enabled \in BOOLEAN : SetTradingEnabled(enabled)

SpecPlace == InitEntry /\ [][NextPlace]_vars

\* C26: while trading is paused no order of a placement method goes to the
\* broker, and a placement method that returns while trading is paused
\* returns an empty result.
PausedPlacesNothing ==
    /\ ~trading_enabled => port_req.op # "place"
    /\ (api_result # NoResult /\ ~api_result.trading_enabled)
           => api_result.returned = "empty"

(***************************************************************************)
(* SpecRegistry: alerts routed and hooks executed while plugins are        *)
(* enabled and disabled.  The hook data is the sequence of the plugins     *)
(* that have modified it.                                                  *)
(***************************************************************************)
RegistryFrame ==
    /\ UNCHANGED <<reentryVars, riskVars, entryVars, tpVars, dualVars, routeVars,
                   sessionVars, escaped, smart_lot, tsm, tsm_result, menu_config,
                   menu_result, menu_edits, api_result, api_call, ctx, ctx_result>>

\* plugin.enable() / plugin.disable()
SetPluginEnabled(plugin_id, enabled) ==
    /\ get_plugin(plugin_id) # 0
    /\ registry.enabled[get_plugin(plugin_id)] # enabled
    /\ registry' = [registry EXCEPT !.enabled[get_plugin(plugin_id)] = enabled]
    /\ reg_result' = NoResult
    /\ RegistryFrame

RouteAlertToPlugin(signal_type, plugin_id) ==
    LET r == route_alert_to_plugin(signal_type, plugin_id) IN
    /\ reg_result' = [op |-> "route_alert_to_plugin", plugin_id |-> plugin_id,
                      invoked |-> r.invoked, result |-> r.result]
    /\ UNCHANGED registry
    /\ RegistryFrame

\* execute_hook(hook_name, data) starts: result = data
ExecuteHook(hook_name) ==
    /\ registry.hook = NoHook
    /\ registry' = [registry EXCEPT !.hook =
                        [hook_name |-> hook_name, next |-> 1, result |-> <<>>,
                         pc |-> "loop"]]
    /\ reg_result' = NoResult
    /\ RegistryFrame

\* one turn of execute_hook's loop, for the next plugin of self.plugins, up
\* to the await of the handler.  A disabled plugin and one without the handler
\* are passed over; importlib.util raises AttributeError when the process has
\* not imported it, which is logged like an exception of the handler; else
\* the handler is called.  A handler that suspends (suspends) leaves
\* execute_hook awaiting it; one that runs through returns modified data,
\* returns None, or raises (outcome).
HookStep(outcome, suspends) ==
    /\ registry.hook # NoHook
    /\ registry.hook.pc = "loop"
    /\ registry.hook.next <= Len(registry.plugins)
    /\ LET hook == registry.hook
           plugin_id == registry.plugins[hook.next]
           invoked == /\ registry.enabled[hook.next]
                      /\ HasHandler(plugin_id, hook.hook_name)
                      /\ registry.importlib_util
           result == IF invoked /\ ~suspends /\ outcome = "modified"
                     THEN Append(hook.result, plugin_id) ELSE hook.result
       IN  /\ suspends => invoked /\ HandlerAwaits(hook.hook_name)
           /\ registry' = IF suspends
                          THEN [registry EXCEPT !.hook.pc = "awaiting"]
                          ELSE [registry EXCEPT !.hook.next = @ + 1,
                                                !.hook.result = result]
           /\ reg_result' = [op |-> "execute_hook", plugin_id |-> plugin_id,
                             invoked |-> IF invoked THEN "on_" \o hook.hook_name
                                         ELSE "none",
                             data |-> hook.result, result |-> result]
    /\ RegistryFrame

\* the awaited handler returns modified data, returns None, or raises, and
\* execute_hook goes on with the next plugin; no plugin method is invoked in
\* this step
HookHandlerReturn(outcome) ==
    /\ registry.hook # NoHook
    /\ registry.hook.pc = "awaiting"
    /\ LET hook == registry.hook
           plugin_id == registry.plugins[hook.next]
           result == IF outcome = "modified"
                     THEN Append(hook.result, plugin_id) ELSE hook.result
       IN  /\ registry' = [registry EXCEPT !.hook.next = @ + 1, !.hook.result = result,
                                           !.hook.pc = "loop"]
           /\ reg_result' = [op |-> "execute_hook", plugin_id |-> plugin_id,
                             invoked |-> "none",
                             data |-> hook.result, result |-> result]
    /\ RegistryFrame

\* execute_hook returns result
HookReturn ==
    /\ registry.hook # NoHook
    /\ registry.hook.pc = "loop"
    /\ registry.hook.next > Len(registry.plugins)
    /\ registry' = [registry EXCEPT !.hook = NoHook]
    /\ reg_result' = NoResult
    /\ RegistryFrame

RoutedSignalTypes == {"entry_v3", "Bullish_Exit", "REVERSAL_v3", "entry_reversal",
                      "squeeze_v3", ""}

HookOutcomes == {"modified", "none", "raised"}

\* the registry after load_all_plugins, in a process that has or has not
\* imported importlib.util
InitRegistry ==
    /\ PluginInit
    /\ cfg = AllEnabled
    /\ counting = FALSE
    /\ RiskInitServicesUp /\ EntryInitQuiet /\ TpInitQuiet
    /\ DualInitQuiet /\ RouteInitQuiet /\ SessionInitQuiet
    /\ escaped = FALSE
    /\ AuxInitBase
    /\ registry \in {RegistryInit(importlib_util) : importlib_util \in BOOLEAN}
    /\ menu_config = MenuConfigInit /\ menu_result = NoResult /\ menu_edits = 0

NextRegistry ==
    \/ \E plugin_id \in PluginIds, enabled \in BOOLEAN :
           SetPluginEnabled(plugin_id, enabled)
    \/ \E signal_type \in RoutedSignalTypes, plugin_id \in PluginIds :
           RouteAlertToPlugin(signal_type, plugin_id)
    \/ \E hook_name \in {"signal_received", "sl_hit", "tick"} : ExecuteHook(hook_name)
    \/ \E outcome \in HookOutcomes, suspends \in BOOLEAN : HookStep(outcome, suspends)
    \/ \E outcome \in HookOutcomes : HookHandlerReturn(outcome)
    \/ HookReturn

SpecRegistry == InitRegistry /\ [][NextRegistry]_vars

\* the plugin is registered and enabled now
RegisteredAndEnabled(plugin_id) ==
    \E i \in DOMAIN registry.plugins :
        registry.plugins[i] = plugin_id /\ registry.enabled[i]

\* C27: a step of the registry invokes a plugin's method or hook only if the
\* plugin is registered and enabled at that step; for any other plugin,
\* route_alert_to_plugin returns its skip or error dict and execute_hook
\* leaves the data as it was.
OnlyEnabledPluginsInvoked ==
    reg_result # NoResult =>
        IF RegisteredAndEnabled(reg_result.plugin_id)
        THEN TRUE
        ELSE /\ reg_result.invoked = "none"
             /\ reg_result.op = "route_alert_to_plugin"
                    => reg_result.result \in {"plugin_not_found", "plugin_disabled"}
             /\ reg_result.op = "execute_hook" => reg_result.result = reg_result.data

(***************************************************************************)
(* SpecCtx: plugin contexts set, read and cleaned up while time passes.    *)
(***************************************************************************)
MaxClockSteps == 4      \* steps the clock takes
ClockStep     == 150    \* seconds per step of the clock

CtxChats == {1, 2}
CtxPlugins == {"v3", "both", "v5"}
CtxExpiries == {NoExpiryGiven, 0, 150}

CtxFrame ==
    /\ UNCHANGED <<reentryVars, riskVars, entryVars, tpVars, dualVars, routeVars,
                   sessionVars, escaped, smart_lot, tsm, tsm_result, menu_config,
                   menu_result, menu_edits, api_result, api_call, registry,
                   reg_result>>

\* datetime.now() moves on
AdvanceClock ==
    /\ ctx.now < MaxClockSteps * ClockStep
    /\ ctx' = [ctx EXCEPT !.now = @ + ClockStep]
    /\ ctx_result' = NoResult
    /\ CtxFrame

\* set_plugin_context(chat_id, plugin, command, expiry_seconds)
SetPluginContext(chat_id, plugin, expiry_seconds) ==
    /\ IF plugin \notin VALID_PLUGINS
       THEN UNCHANGED ctx
       ELSE ctx' = [ctx EXCEPT
                !.user_contexts = (chat_id :> [plugin |-> plugin, timestamp |-> ctx.now,
                                               expires_in |-> expiry_of(expiry_seconds)]) @@ @,
                !.asked = (chat_id :> [at |-> ctx.now, expiry_seconds |-> expiry_seconds]) @@ @]
    /\ ctx_result' = [op |-> "set_plugin_context", chat_id |-> chat_id, plugin |-> plugin,
                      returned |-> IF plugin \in VALID_PLUGINS THEN "True" ELSE "False",
                      before |-> ctx.user_contexts]
    /\ CtxFrame

\* the dict without the entries of the given keys
WithoutKeys(dict, keys) == [k \in DOMAIN dict \ keys |-> dict[k]]

\* get_plugin_context(chat_id)
GetPluginContext(chat_id) ==
    /\ IF chat_id \notin DOMAIN ctx.user_contexts
       THEN /\ UNCHANGED ctx
            /\ ctx_result' = [op |-> "get_plugin_context", chat_id |-> chat_id,
                              returned |-> "None"]
       ELSE IF ContextExpired(ctx.user_contexts[chat_id])
       THEN /\ ctx' = [ctx EXCEPT !.user_contexts = WithoutKeys(@, {chat_id})]
            /\ ctx_result' = [op |-> "get_plugin_context", chat_id |-> chat_id,
                              returned |-> "None"]
       ELSE /\ UNCHANGED ctx
            /\ ctx_result' = [op |-> "get_plugin_context", chat_id |-> chat_id,
                              returned |-> ctx.user_contexts[chat_id].plugin]
    /\ CtxFrame

\* cleanup_expired_contexts()
CleanupExpiredContexts ==
    LET expired_chats == {c \in DOMAIN ctx.user_contexts :
                              ContextExpired(ctx.user_contexts[c])}
    IN  /\ ctx' = [ctx EXCEPT !.user_contexts = WithoutKeys(@, expired_chats)]
        /\ ctx_result' = [op |-> "cleanup_expired_contexts", chat_id |-> 0,
                          returned |-> Cardinality(expired_chats)]
        /\ CtxFrame

\* get_full_context(chat_id): the stored context, deleted instead when it has
\* expired
GetFullContext(chat_id) ==
    /\ IF chat_id \notin DOMAIN ctx.user_contexts
       THEN /\ UNCHANGED ctx
            /\ ctx_result' = [op |-> "get_full_context", chat_id |-> chat_id,
                              returned |-> "None"]
       ELSE IF ContextExpired(ctx.user_contexts[chat_id])
       THEN /\ ctx' = [ctx EXCEPT !.user_contexts = WithoutKeys(@, {chat_id})]
            /\ ctx_result' = [op |-> "get_full_context", chat_id |-> chat_id,
                              returned |-> "None"]
       ELSE /\ UNCHANGED ctx
            /\ ctx_result' = [op |-> "get_full_context", chat_id |-> chat_id,
                              returned |-> ctx.user_contexts[chat_id]]
    /\ CtxFrame

\* clear_plugin_context(chat_id), also reached as clear_user_plugin(chat_id):
\* the chat's context is deleted whatever its age
ClearPluginContext(chat_id) ==
    /\ ctx' = [ctx EXCEPT !.user_contexts = WithoutKeys(@, {chat_id})]
    /\ ctx_result' = [op |-> "clear_plugin_context", chat_id |-> chat_id,
                      returned |-> IF chat_id \in DOMAIN ctx.user_contexts
                                   THEN "True" ELSE "False"]
    /\ CtxFrame

\* reset_all_contexts(): every context is deleted whatever its age
ResetAllContexts ==
    /\ ctx' = [ctx EXCEPT !.user_contexts = EmptyDict]
    /\ ctx_result' = [op |-> "reset_all_contexts", chat_id |-> 0,
                      returned |-> Cardinality(DOMAIN ctx.user_contexts)]
    /\ CtxFrame

NextCtx ==
    \/ AdvanceClock
    \/ \E chat_id \in CtxChats, plugin \in CtxPlugins, expiry_seconds \in CtxExpiries :
           SetPluginContext(chat_id, plugin, expiry_seconds)
    \/ \E chat_id \in CtxChats : GetPluginContext(chat_id)
    \/ \E chat_id \in CtxChats : GetFullContext(chat_id)
    \/ \E chat_id \in CtxChats : ClearPluginContext(chat_id)
    \/ CleanupExpiredContexts
    \/ ResetAllContexts

SpecCtx == Init /\ [][NextCtx]_vars

\* C29: get_plugin_context returns a chat's plugin only while the age of its
\* context is at most the expiry time asked for when it was set (300 seconds
\* when none was given), and set_plugin_context with a plugin that is not
\* valid changes no stored context.
ContextReturnedOnlyWhileFresh ==
    /\ (/\ ctx_result # NoResult
        /\ ctx_result.op = "get_plugin_context"
        /\ ctx_result.returned # "None")
       => LET asked == ctx.asked[ctx_result.chat_id]
              expiry_time == IF asked.expiry_seconds = NoExpiryGiven
                             THEN DEFAULT_EXPIRY_SECONDS ELSE asked.expiry_seconds
          IN  ctx.now - asked.at <= expiry_time
    /\ (/\ ctx_result # NoResult
        /\ ctx_result.op = "set_plugin_context"
        /\ ctx_result.plugin \notin VALID_PLUGINS)
       => ctx.user_contexts = ctx_result.before

====
